---------------------------- MODULE Spec2Model ----------------------------
(***************************************************************************)
(* A model of the per-statement execution engine of deno-kysely-msodbc:    *)
(* OdbcRequest.execute / OdbcRequest.stream (src/unnamed/part_000) as      *)
(* called by OdbcConnection.executeQuery / streamQuery (src/connection.ts) *)
(* against an ODBC driver whose answers are the model's inputs.            *)
(***************************************************************************)
EXTENDS Integers, Sequences, FiniteSets, TLC

(***************************************************************************)
(* Bounds of the model.                                                    *)
(***************************************************************************)
MaxRows == 3
MaxCols == 2
MaxChunk == 2
MaxQueue == 2
MaxDiag == 2
MaxStrLen == 2
MaxCalls == 2
MaxAllocs == 3
MaxDestroys == 3
MaxConns == 2
MaxDriverDestroys == 2

(***************************************************************************)
(* Protocol values.                                                        *)
(***************************************************************************)
MAX_BIND_SIZE == 65536
SQL_NULL_DATA == -1
SQL_NTS == -3
SQL_SUCCESS == 0
SQL_SUCCESS_WITH_INFO == 1
SQL_ERROR == -1
SQL_INVALID_HANDLE == -2
SQL_NO_DATA == 100
DateBufLen == 30

NULL == "null"
DBC == "dbc"
STMT == "stmt"
ENV == "env"

(***************************************************************************)
(* Integers of arbitrary size.  A whole number v is the tuple              *)
(* <<h, l3, l2, l1, l0>> with v = h*2^64 + l3*2^48 + l2*2^32 + l1*2^16 + l0*)
(* and 0 <= l_i < 2^16: the four limbs are the 64-bit two's complement     *)
(* pattern of v and h is what lies above it (0 or -1 exactly when v fits   *)
(* 64 bits and has the sign the pattern shows).                            *)
(***************************************************************************)
Limb == 256 * 256
HalfLimb == Limb \div 2

Big(h, l3, l2, l1, l0) == <<h, l3, l2, l1, l0>>

SmallBig(n) ==
    IF n >= 0 THEN Big(0, 0, 0, n \div Limb, n % Limb)
    ELSE Big(-1, Limb - 1, Limb - 1, (n \div Limb) % Limb, n % Limb)

\* Faulty variant: a range test that lets 2147483648 into the 32-bit path.
Int32RangeOffByOne(b) ==
    \/ b[1] = 0 /\ b[2] = 0 /\ b[3] = 0 /\ (b[4] < HalfLimb \/ (b[4] = HalfLimb /\ b[5] = 0))
    \/ b[1] = -1 /\ b[2] = Limb - 1 /\ b[3] = Limb - 1 /\ b[4] >= HalfLimb

\* val >= -2147483648 && val <= 2147483647
InInt32Range(b) ==
    \/ b[1] = 0 /\ b[2] = 0 /\ b[3] = 0 /\ b[4] < HalfLimb
    \/ b[1] = -1 /\ b[2] = Limb - 1 /\ b[3] = Limb - 1 /\ b[4] >= HalfLimb

InInt64Range(b) ==
    \/ b[1] = 0 /\ b[2] < HalfLimb
    \/ b[1] = -1 /\ b[2] >= HalfLimb

\* The element an Int32Array holds for a whole number: its low 32 bits, signed.
ToInt32(b) ==
    IF b[4] < HalfLimb THEN b[4] * Limb + b[5]
    ELSE (b[4] - Limb) * Limb + b[5]

\* The element a BigInt64Array holds for a whole number: its low 64 bits.
ToInt64Bits(b) == <<b[2], b[3], b[4], b[5]>>

\* The bigint read from a BigInt64Array element: the bits, sign-extended.
FromInt64Bits(w) ==
    Big(IF w[1] >= HalfLimb THEN -1 ELSE 0, w[1], w[2], w[3], w[4])

(***************************************************************************)
(* JavaScript values.  [kind, v] with v a tuple of integers:               *)
(*   number   <<h,l3,l2,l1,l0, half>>  the whole number plus half/2        *)
(*   bigint   <<h,l3,l2,l1,l0>>                                            *)
(*   boolean  <<0>> or <<1>>                                               *)
(*   string   its UTF-16 code units                                        *)
(*   null, undefined, object, symbol, function   <<>>                      *)
(***************************************************************************)
JsNull == [kind |-> "null", v |-> <<>>]
JsUndefined == [kind |-> "undefined", v |-> <<>>]
JsObject == [kind |-> "object", v |-> <<>>]
JsSymbol == [kind |-> "symbol", v |-> <<>>]
JsFunction == [kind |-> "function", v |-> <<>>]
JsNumber(b, half) == [kind |-> "number", v |-> b \o <<half>>]
JsBigInt(b) == [kind |-> "bigint", v |-> b]
JsBool(t) == [kind |-> "boolean", v |-> <<IF t THEN 1 ELSE 0>>]
JsString(units) == [kind |-> "string", v |-> units]

BigOf(val) == SubSeq(val.v, 1, 5)

\* typeof val === "number" && val % 1 === 0
IsWholeNumber(val) == val.kind = "number" /\ val.v[6] = 0

(***************************************************************************)
(* Errors.  [kind, info]; info is the diagnostic text of a failed native   *)
(* call (the record numbers joined, or <<0>> for the fallback text).       *)
(***************************************************************************)
NoErr == [kind |-> "none", info |-> <<>>]
Err(kind) == [kind |-> kind, info |-> <<>>]
ErrWith(kind, info) == [kind |-> kind, info |-> info]

(***************************************************************************)
(* strToBuf / bufToStr: UTF-16 units with a terminating zero unit, and the *)
(* first n units of a buffer.                                              *)
(***************************************************************************)
StrToBuf(units) == units \o <<0>>

BufToStr(buf, n) == SubSeq(buf, 1, IF n > Len(buf) THEN Len(buf) ELSE n)

Zeros(n) == [k \in 1..n |-> 0]

(***************************************************************************)
(* OdbcRequest.#getParamBinding                                            *)
(***************************************************************************)
ParamBinding(cType, sqlType, buf, columnSize, bufLen, lenInd) ==
    [ok |-> TRUE, cType |-> cType, sqlType |-> sqlType, buf |-> buf,
     columnSize |-> columnSize, decimalDigits |-> 0, bufLen |-> bufLen,
     lenIndBuf |-> lenInd]

NoParamBinding ==
    [ok |-> FALSE, cType |-> "", sqlType |-> "", buf |-> <<>>,
     columnSize |-> 0, decimalDigits |-> 0, bufLen |-> 0, lenIndBuf |-> 0]

\* Faulty variant: a mapping that binds a value of any kind, as it binds null.
BindsEverything(val) ==
    [ok |-> TRUE, cType |-> "1", sqlType |-> "1", buf |-> <<>>,
     columnSize |-> 0, decimalDigits |-> 0, bufLen |-> 0,
     lenIndBuf |-> SQL_NULL_DATA]

GetParamBinding(val) ==
    IF val.kind \in {"null", "undefined"}
    THEN ParamBinding("1", "1", <<>>, 0, 0, SQL_NULL_DATA)
    ELSE IF val.kind = "bigint" \/ IsWholeNumber(val)
    THEN IF InInt32Range(BigOf(val))
         THEN ParamBinding("SQL_C_SLONG", "SQL_INTEGER",
                           <<ToInt32(BigOf(val))>>, 0, 4, 4)
         ELSE ParamBinding("SQL_C_SBIGINT", "SQL_BIGINT",
                           ToInt64Bits(BigOf(val)), 0, 8, 8)
    ELSE IF val.kind = "number"
    THEN ParamBinding("SQL_C_DOUBLE", "SQL_FLOAT", val.v, 0, 8, 8)
    ELSE IF val.kind = "boolean"
    THEN ParamBinding("SQL_C_BIT", "SQL_BIT", val.v, 0, 1, 1)
    ELSE IF val.kind = "string"
    THEN ParamBinding("SQL_C_WCHAR", "SQL_WVARCHAR", StrToBuf(val.v),
                      Len(val.v), (Len(val.v) + 1) * 2, SQL_NTS)
    ELSE NoParamBinding

(***************************************************************************)
(* OdbcRequest.#getColBinding                                              *)
(***************************************************************************)
ColBinding(cType, buf, bufLen) ==
    [ok |-> TRUE, cType |-> cType, buf |-> buf, bufLen |-> bufLen,
     lenIndBuf |-> 0]

NoColBinding ==
    [ok |-> FALSE, cType |-> "", buf |-> <<>>, bufLen |-> 0, lenIndBuf |-> 0]

\* new Uint16Array(len) with len < 0 throws a RangeError
RangeErrorBinding ==
    [ok |-> FALSE, cType |-> "RangeError", buf |-> <<>>, bufLen |-> 0,
     lenIndBuf |-> 0]

CharTypes ==
    {"SQL_CHAR", "SQL_VARCHAR", "SQL_LONGVARCHAR",
     "SQL_WCHAR", "SQL_WVARCHAR", "SQL_WLONGVARCHAR"}

\* Faulty variant: a type that is not known is bound as text.
BindsAnyType(dataType, columnSize) ==
    IF dataType = "SQL_INTEGER" THEN ColBinding("SQL_C_SLONG", <<0>>, 4)
    ELSE IF columnSize + 1 < 0 THEN RangeErrorBinding
    ELSE ColBinding("SQL_C_WCHAR", Zeros(columnSize + 1), (columnSize + 1) * 2)

GetColBinding(dataType, columnSize) ==
    IF dataType = "SQL_INTEGER" THEN ColBinding("SQL_C_SLONG", <<0>>, 4)
    ELSE IF dataType = "SQL_BIGINT"
    THEN ColBinding("SQL_C_SBIGINT", <<0, 0, 0, 0>>, 8)
    ELSE IF dataType = "SQL_FLOAT"
    THEN ColBinding("SQL_C_DOUBLE", <<0, 0, 0, 0, 0, 0>>, 8)
    ELSE IF dataType = "SQL_BIT" THEN ColBinding("SQL_C_BIT", <<0>>, 1)
    ELSE IF dataType \in CharTypes
    THEN IF columnSize + 1 < 0 THEN RangeErrorBinding
         ELSE ColBinding("SQL_C_WCHAR", Zeros(columnSize + 1),
                         (columnSize + 1) * 2)
    ELSE IF dataType \in {"SQL_TYPE_TIMESTAMP", "SQL_TYPE_DATE"}
    THEN ColBinding("SQL_C_WCHAR", Zeros(DateBufLen), DateBufLen * 2)
    ELSE NoColBinding

\* The size test of #bindCols made before #getColBinding is called.
ColSizeRejected(columnSize) == columnSize = 0 \/ columnSize > MAX_BIND_SIZE

(***************************************************************************)
(* OdbcRequest.#readRow, for one column binding.                           *)
(***************************************************************************)
Decoded(val) == [ok |-> TRUE, val |-> val]
DecodeError == [ok |-> FALSE, val |-> JsNull]

\* Faulty variant: a decoder that reads the buffer without looking at the indicator.
ReadCellIgnoresIndicator(b) ==
    IF b.cType = "SQL_C_WCHAR" THEN Decoded(JsString(b.buf))
    ELSE IF b.cType = "SQL_C_BIT" THEN Decoded(JsBool(b.buf[1] = 1))
    ELSE Decoded(JsNull)

ReadCell(b) ==
    IF b.lenIndBuf = SQL_NULL_DATA THEN Decoded(JsNull)
    ELSE IF b.cType = "SQL_C_SLONG"
    THEN Decoded(JsNumber(SmallBig(b.buf[1]), 0))
    ELSE IF b.cType = "SQL_C_SBIGINT"
    THEN Decoded(JsBigInt(FromInt64Bits(b.buf)))
    ELSE IF b.cType = "SQL_C_DOUBLE"
    THEN Decoded([kind |-> "number", v |-> b.buf])
    ELSE IF b.cType = "SQL_C_BIT" THEN Decoded(JsBool(b.buf[1] = 1))
    ELSE IF b.cType = "SQL_C_WCHAR"
    THEN Decoded(JsString(BufToStr(b.buf, b.lenIndBuf \div 2)))
    ELSE DecodeError

(***************************************************************************)
(* Faulty variants of definitions that follow.  Each property below is     *)
(* also checked to fail when one of them stands in for the definition.     *)
(***************************************************************************)
\* a throw that leaves the try block without running finally
SkipFinally == "settle"

\* a diagnostic text that is always the fallback
NoDiagnostics(r) == <<0>>

\* an execute that binds and fetches whatever the column count
AnyColumnCount(n) == n >= 0

\* a stream that drops the partial chunk left at exhaustion
NeverPartial(buf) == FALSE

\* a stream that holds a chunk back until it exceeds chunkSize
ChunkOverfull(buf, c) == Len(buf) * c.d > c.n

\* a stream that replaces the error it rethrows
MaskedFailure(e) == [type |-> "error", rows |-> <<>>, err |-> Err("masked")]

(***************************************************************************)
(* getOdbcError: the driver holds r diagnostic records for the handle and  *)
(* answers no-more-data for record r + 1.                                  *)
(***************************************************************************)
RECURSIVE DiagLoop(_, _, _)
DiagLoop(n, r, errors) ==
    IF n > r THEN errors ELSE DiagLoop(n + 1, r, Append(errors, n))

GetOdbcError(r) ==
    LET errors == DiagLoop(1, r, <<>>)
    IN  IF Len(errors) > 0 THEN errors ELSE <<0>>

(***************************************************************************)
(* The driver.  Every native call is answered by a response                *)
(* [ok, a, b]; the answers of one statement are kept in driverLog so that  *)
(* the same statement can be run again against the same answers.           *)
(***************************************************************************)
Resp(ok, a, b) == [ok |-> ok, a |-> a, b |-> b]

Call(fn, arg) == [fn |-> fn, arg |-> arg]

\* A handle as the argument of a logged call.
HandleId(h) == IF h = STMT THEN 2 ELSE IF h = DBC THEN 1 ELSE 0

\* Affected-row counts the driver may report for a statement without columns.
RowCounts == {-2, -1, 0, MaxRows}

\* What describeCol may report for the column at an ordinal.
Desc(name, dataType, columnSize) ==
    [name |-> name, dataType |-> dataType, columnSize |-> columnSize]

ColDescs(ord) ==
    IF ord = 1
    THEN <<Desc("a", "SQL_INTEGER", 10), Desc("a", "SQL_WVARCHAR", 0),
           Desc("c", "SQL_INTEGER", -1)>>
    ELSE IF ord > 2
    THEN <<Desc("d", "SQL_BIT", 1)>>
    ELSE <<Desc("b", "SQL_WVARCHAR", 2), Desc("a", "SQL_WVARCHAR", 2),
           Desc("b", "SQL_WVARCHAR", MAX_BIND_SIZE + 1),
           Desc("b", "SQL_DECIMAL", 10), Desc("b", "SQL_WVARCHAR", -2),
           Desc("b", "SQL_VARBINARY", 0)>>

\* What a successful fetch of row j leaves in a bound column buffer.
DriverWrite(j, b) ==
    IF j % 3 = 0 THEN [b EXCEPT !.lenIndBuf = SQL_NULL_DATA]
    ELSE IF b.cType = "SQL_C_SLONG"
    THEN [b EXCEPT !.buf = <<j>>, !.lenIndBuf = 4]
    ELSE IF b.cType = "SQL_C_SBIGINT"
    THEN [b EXCEPT !.buf = <<0, 0, 0, j>>, !.lenIndBuf = 8]
    ELSE IF b.cType = "SQL_C_DOUBLE"
    THEN [b EXCEPT !.buf = <<0, 0, 0, 0, j, 1>>, !.lenIndBuf = 8]
    ELSE IF b.cType = "SQL_C_BIT"
    THEN [b EXCEPT !.buf = <<j % 2>>, !.lenIndBuf = 1]
    ELSE LET n == IF j < Len(b.buf) THEN j ELSE Len(b.buf) - 1
         IN  [b EXCEPT !.buf = [k \in 1..Len(b.buf) |->
                                   IF k <= n THEN 96 + j
                                   ELSE IF k = n + 1 THEN 0 ELSE b.buf[k]],
                       !.lenIndBuf = 2 * n]

(***************************************************************************)
(* State.                                                                  *)
(***************************************************************************)
VARIABLES
    op,              \* "execute" | "stream": the call made
    entry,           \* "connection": through OdbcConnection; "request": OdbcRequest directly
    dbcHandle,       \* OdbcConnection.#dbcHandle
    parameters,      \* compiledQuery.parameters
    chunkSize,       \* [n, d]: the number n/d passed as chunkSize
    pc,              \* position of the request's code
    stmtHandle,      \* OdbcRequest.#stmtHandle
    paramBindings,   \* OdbcRequest.#paramBindings, by position
    colBindings,     \* OdbcRequest.#colBindings: <<[name, ref]>> in insertion order
    mem,             \* the column buffers the driver writes, by ordinal
    rows,            \* OdbcRequest.#rows
    buffer,          \* stream's chunk buffer
    i,               \* loop index of #bindParams / #bindCols
    colCount,        \* from execDirect
    numAffectedRows, \* from execDirect
    completion,      \* how the try block ended: [type, err]
    queue,           \* requests of the consumer the generator has not answered
    consumer,        \* "awaiting" | "pulling" | "returned" | "stopped"
    delivered,       \* what the consumer got, in order
    requestResult,   \* what request.execute() settled with
    result,          \* what executeQuery settled with
    calls,           \* native calls issued, in order
    driverLog,       \* the driver's answers, in order
    cursor,          \* next answer of driverLog when replaying
    replay,          \* TRUE when the statement is run again against driverLog
    fetched,         \* rows the driver has returned on the statement
    thrown,          \* the error raised in the request's code
    rtPc,            \* round trip of one value: position
    rtVal,           \* the parameter value
    rtParam,         \* its parameter binding
    rtCol,           \* the column binding of the echoed column
    rtOut,           \* what #readRow made of the echoed column
    dgPc,            \* getOdbcError: position
    dgI,             \* its record counter i
    dgErrors,        \* its errors array
    dgCalls,         \* record numbers asked of SQLGetDiagRecW, in order
    dgDriver,        \* the handle's diagnostic records and where retrieval fails
    dgLast,          \* status of the last SQLGetDiagRecW call
    dgOut,           \* what getOdbcError returned
    cqShared,        \* TRUE: both calls are made on one OdbcRequest object
    cqCall,          \* per call on the connection: [kind, pc]
    cqHandle,        \* per request object: its #stmtHandle (0: null)
    cqLive,          \* statement handles allocated and not freed
    cqFrees,         \* handles passed to SQLFreeHandle, in order (0: null)
    cqAllocs,        \* statement handles allocated so far
    dsCall,          \* per destroy() call on one connection: its position
    dsHandle,        \* that connection's #dbcHandle
    dsFrees,         \* handles passed to freeHandle, in order
    dsFailed,        \* destroy() calls whose disconnect failed
    drEnv,           \* OdbcDriver: its #envHandle
    drPool,          \* the pool: "open", or "closed" once destroy was asked
    drConn,          \* per connection the create hook made: its position
    drLive,          \* connections whose handle is allocated and not freed
    drCall,          \* per OdbcDriver.destroy() call: its position
    drFrees          \* handles passed to SQLFreeHandle(SQL_HANDLE_ENV, ..)

vars ==
    <<op, entry, dbcHandle, parameters, chunkSize, pc, stmtHandle,
      paramBindings, colBindings, mem, rows, buffer, i, colCount,
      numAffectedRows, completion, queue, consumer, delivered,
      requestResult, result, calls, driverLog, cursor, replay, fetched,
      thrown, rtPc, rtVal, rtParam, rtCol, rtOut, dgPc, dgI, dgErrors,
      dgCalls, dgDriver, dgLast, dgOut, cqShared, cqCall, cqHandle, cqLive,
      cqFrees, cqAllocs, dsCall, dsHandle, dsFrees, dsFailed,
      drEnv, drPool, drConn, drLive, drCall, drFrees>>

rtVars == <<rtPc, rtVal, rtParam, rtCol, rtOut>>

dgVars == <<dgPc, dgI, dgErrors, dgCalls, dgDriver, dgLast, dgOut>>

cqVars == <<cqShared, cqCall, cqHandle, cqLive, cqFrees, cqAllocs>>

dsVars == <<dsCall, dsHandle, dsFrees, dsFailed>>

drVars == <<drEnv, drPool, drConn, drLive, drCall, drFrees>>

requestVars ==
    <<op, entry, dbcHandle, parameters, chunkSize, pc, stmtHandle,
      paramBindings, colBindings, mem, rows, buffer, i, colCount,
      numAffectedRows, completion, queue, consumer, delivered,
      requestResult, result, calls, driverLog, cursor, replay, fetched,
      thrown>>

(***************************************************************************)
(* Inputs.                                                                 *)
(***************************************************************************)
Chunk(n, d) == [n |-> n, d |-> d]

\* Number.isInteger(chunkSize)
IsInteger(c) == c.n % c.d = 0

ValidChunks == {Chunk(k, 1) : k \in 1..MaxChunk}
InvalidChunks == {Chunk(0, 1), Chunk(-1, 1), Chunk(3, 2)}

ParamsOk == <<JsNumber(SmallBig(7), 0), JsString(<<104, 105>>)>>
ParamsBad == <<JsNull, JsObject, JsBool(TRUE)>>
ParamsBadFirst == <<JsSymbol, JsFunction>>
ParamLists == {<<>>, ParamsOk, ParamsBad, ParamsBadFirst}

Scenario(o, e, h, p, c) ==
    [op |-> o, entry |-> e, dbcHandle |-> h, parameters |-> p, chunkSize |-> c]

Scenarios ==
    {Scenario("execute", "connection", DBC, p, Chunk(1, 1)) : p \in ParamLists}
    \cup {Scenario("execute", "connection", NULL, <<>>, Chunk(1, 1)),
          Scenario("stream", "connection", NULL, <<>>, Chunk(1, 1)),
          Scenario("stream", "connection", DBC, ParamsBad, Chunk(1, 1)),
          Scenario("stream", "connection", DBC, ParamsBadFirst, Chunk(1, 1))}
    \cup {Scenario("stream", "connection", DBC, ParamsOk, c) :
             c \in ValidChunks \cup InvalidChunks}
    \cup {Scenario("stream", "request", DBC, ParamsOk, c) : c \in InvalidChunks}

NoResult == [state |-> "pending", rows |-> <<>>, count |-> 0,
             defined |-> FALSE, err |-> NoErr]

Normal == [type |-> "normal", err |-> NoErr]
Thrown(e) == [type |-> "throw", err |-> e]
Returned == [type |-> "return", err |-> NoErr]

\* A request just constructed for scenario s.
NewRequest(s) ==
    /\ op = s.op
    /\ entry = s.entry
    /\ dbcHandle = s.dbcHandle
    /\ parameters = s.parameters
    /\ chunkSize = s.chunkSize
    /\ consumer = IF s.op = "stream" THEN "pulling" ELSE "awaiting"
    /\ pc = "start"
    /\ stmtHandle = NULL
    /\ paramBindings = <<>>
    /\ colBindings = <<>>
    /\ mem = <<>>
    /\ rows = <<>>
    /\ buffer = <<>>
    /\ i = 0
    /\ colCount = 0
    /\ numAffectedRows = 0
    /\ completion = Normal
    /\ queue = <<>>
    /\ delivered = <<>>
    /\ requestResult = NoResult
    /\ result = NoResult
    /\ calls = <<>>
    /\ driverLog = <<>>
    /\ cursor = 1
    /\ replay = FALSE
    /\ fetched = 0
    /\ thrown = NoErr

NoRoundTrip ==
    /\ rtPc = "idle"
    /\ rtVal = JsNull
    /\ rtParam = NoParamBinding
    /\ rtCol = NoColBinding
    /\ rtOut = DecodeError

\* getOdbcError not called.
NoDiag ==
    /\ dgPc = "idle"
    /\ dgI = 1
    /\ dgErrors = <<>>
    /\ dgCalls = <<>>
    /\ dgDriver = [records |-> <<>>, failFrom |-> 0, failStatus |-> SQL_ERROR]
    /\ dgLast = SQL_SUCCESS
    /\ dgOut = <<>>

\* No call in progress on the connection.
NoCalls ==
    /\ cqShared = FALSE
    /\ cqCall = [c \in 1..MaxCalls |-> [kind |-> "execute", pc |-> "idle"]]
    /\ cqHandle = [o \in 1..MaxCalls |-> 0]
    /\ cqLive = {}
    /\ cqFrees = <<>>
    /\ cqAllocs = 0

\* destroy() not called.
\* The driver is constructed: init() was not called, the pool is empty.
NoPool ==
    /\ drEnv = NULL
    /\ drPool = "open"
    /\ drConn = [c \in 1..MaxConns |-> "none"]
    /\ drLive = {}
    /\ drCall = [d \in 1..MaxDriverDestroys |-> "idle"]
    /\ drFrees = <<>>

NoDestroy ==
    /\ dsCall = [c \in 1..MaxDestroys |-> "idle"]
    /\ dsHandle = DBC
    /\ dsFrees = <<>>
    /\ dsFailed = {}

Init ==
    /\ \E s \in Scenarios : NewRequest(s)
    /\ NoRoundTrip
    /\ NoDiag
    /\ NoCalls
    /\ NoDestroy
    /\ NoPool

(***************************************************************************)
(* Helpers of the actions.                                                 *)
(***************************************************************************)
\* The driver answers resp: any answer on the first run, the logged one on a replay.
Driver(resp) ==
    /\ replay => (cursor <= Len(driverLog) /\ resp = driverLog[cursor])
    /\ driverLog' = IF replay THEN driverLog ELSE Append(driverLog, resp)
    /\ cursor' = cursor + 1

NoDriver == UNCHANGED <<driverLog, cursor>>

\* A throw inside the try block of execute / stream runs the finally block.
AfterThrow == "finally"

Raise(e, target) ==
    /\ completion' = Thrown(e)
    /\ thrown' = e
    /\ pc' = target

NoRaise == UNCHANGED <<completion, thrown>>

Chunked(rs) == [type |-> "chunk", rows |-> rs, err |-> NoErr]
Done == [type |-> "done", rows |-> <<>>, err |-> NoErr]
Failed(e) == [type |-> "error", rows |-> <<>>, err |-> e]

\* The generator answers the request at the head of the queue.
Deliver(x) ==
    /\ delivered' = Append(delivered, x)
    /\ queue' = Tail(queue)

NoDeliver == UNCHANGED <<delivered, queue>>

\* Map.prototype.set on #colBindings: a known key keeps its place.
MapSet(m, name, ref) ==
    IF \E k \in DOMAIN m : m[k].name = name
    THEN [k \in DOMAIN m |->
             IF m[k].name = name THEN [name |-> name, ref |-> ref] ELSE m[k]]
    ELSE Append(m, [name |-> name, ref |-> ref])

MapGet(m, name) == m[CHOOSE k \in DOMAIN m : m[k].name = name].ref

\* Faulty variant: a row whose fields are views into the column buffers.
ReadRowAsViews(bindings, memory) ==
    [ok |-> \A k \in DOMAIN bindings : ReadCell(memory[bindings[k].ref]).ok,
     row |-> [n \in {bindings[k].name : k \in DOMAIN bindings} |->
                 [kind |-> "view", v |-> MapGet(bindings, n)]]]

\* OdbcRequest.#readRow over the bindings, reading the shared buffers.
ReadRow(bindings, memory) ==
    [ok |-> \A k \in DOMAIN bindings : ReadCell(memory[bindings[k].ref]).ok,
     row |-> [n \in {bindings[k].name : k \in DOMAIN bindings} |->
                 ReadCell(memory[MapGet(bindings, n)]).val]]

DiagCalls(r) == [k \in 1..(r + 1) |-> Call("SQLGetDiagRecW", k)]

ExecResponses ==
    {Resp(FALSE, 0, 1)}
    \cup {Resp(TRUE, 0, c) : c \in RowCounts}
    \cup {Resp(TRUE, n, -1) : n \in 1..MaxCols}

Bindable(d) ==
    /\ ~ColSizeRejected(d.columnSize)
    /\ GetColBinding(d.dataType, d.columnSize).ok

ColResponses(ord) ==
    {Resp(FALSE, 0, 0)}
    \cup {Resp(TRUE, d, 0) : d \in DOMAIN ColDescs(ord)}
    \cup {Resp(TRUE, d, 1) : d \in {x \in DOMAIN ColDescs(ord) :
                                       Bindable(ColDescs(ord)[x])}}

FetchResponses ==
    {Resp(TRUE, s, 0) : s \in {SQL_NO_DATA, SQL_INVALID_HANDLE}}
    \cup {Resp(TRUE, SQL_ERROR, r) : r \in {0, MaxDiag}}
    \cup (IF fetched < MaxRows
          THEN {Resp(TRUE, s, 0) : s \in {SQL_SUCCESS, SQL_SUCCESS_WITH_INFO}}
          ELSE {})

\* colCount > 0 in execute; colCount === 0 in stream
HasColumns(n) == n > 0
NoColumns(n) == n = 0

\* buffer.length > 0 after the loop of stream
HasPartial(buf) == Len(buf) > 0

\* buffer.length >= chunkSize
ChunkFull(buf, c) == Len(buf) * c.d >= c.n

EndSeen == \E k \in DOMAIN delivered : delivered[k].type \in {"done", "error"}

\* Where the consumer's code can run: the generator is suspended or awaits a native call.
ConsumerCanRun ==
    pc \in {"start", "awaitExec", "awaitFetch", "susp_empty", "susp_chunk",
            "susp_last", "done"}

(***************************************************************************)
(* OdbcConnection.executeQuery, up to request.execute().                   *)
(***************************************************************************)
\* Faulty variant: executeQuery without the test of the connection handle.
ExecuteQueryUnguarded ==
    /\ UNCHANGED <<rtVars, dgVars, cqVars, dsVars, drVars>>
    /\ op = "execute"
    /\ pc = "start"
    /\ pc' = "alloc"
    /\ NoRaise
    /\ NoDriver
    /\ NoDeliver
    /\ UNCHANGED <<op, entry, dbcHandle, parameters, chunkSize, stmtHandle,
                   paramBindings, colBindings, mem, rows, buffer, i, colCount,
                   numAffectedRows, consumer, requestResult, result, calls,
                   replay, fetched>>

ExecuteQuery ==
    /\ UNCHANGED <<rtVars, dgVars, cqVars, dsVars, drVars>>
    /\ op = "execute"
    /\ pc = "start"
    /\ IF dbcHandle = NULL
       THEN /\ Raise(Err("Connection is closed"), "done")
            /\ result' = [NoResult EXCEPT !.state = "rejected",
                                          !.err = Err("Connection is closed")]
       ELSE /\ pc' = "alloc"
            /\ NoRaise
            /\ UNCHANGED result
    /\ NoDriver
    /\ NoDeliver
    /\ UNCHANGED <<op, entry, dbcHandle, parameters, chunkSize, stmtHandle,
                   paramBindings, colBindings, mem, rows, buffer, i, colCount,
                   numAffectedRows, consumer, requestResult, calls, replay,
                   fetched>>

(***************************************************************************)
(* OdbcConnection.streamQuery / OdbcRequest.stream: the first request of   *)
(* the consumer starts the generator.                                      *)
(***************************************************************************)
StreamStart ==
    /\ UNCHANGED <<rtVars, dgVars, cqVars, dsVars, drVars>>
    /\ op = "stream"
    /\ pc = "start"
    /\ queue # <<>>
    /\ Head(queue) = "next"
    /\ IF entry = "connection" /\ dbcHandle = NULL
       THEN Raise(Err("Connection is closed"), "settle")
       ELSE IF entry = "connection" /\ (~IsInteger(chunkSize) \/ chunkSize.n <= 0)
       THEN Raise(Err("chunkSize must be a positive integer"), "settle")
       ELSE pc' = "alloc" /\ NoRaise
    /\ NoDriver
    /\ NoDeliver
    /\ UNCHANGED <<op, entry, dbcHandle, parameters, chunkSize, stmtHandle,
                   paramBindings, colBindings, mem, rows, buffer, i, colCount,
                   numAffectedRows, consumer, requestResult, result, calls,
                   replay, fetched>>

\* return() on a generator that never ran: it completes without running its body.
StreamReturnBeforeStart ==
    /\ UNCHANGED <<rtVars, dgVars, cqVars, dsVars, drVars>>
    /\ op = "stream"
    /\ pc = "start"
    /\ queue # <<>>
    /\ Head(queue) = "return"
    /\ Deliver(Done)
    /\ pc' = "done"
    /\ completion' = Returned
    /\ UNCHANGED thrown
    /\ NoDriver
    /\ UNCHANGED <<op, entry, dbcHandle, parameters, chunkSize, stmtHandle,
                   paramBindings, colBindings, mem, rows, buffer, i, colCount,
                   numAffectedRows, consumer, requestResult, result, calls,
                   replay, fetched>>

(***************************************************************************)
(* allocHandle(SQL_HANDLE_STMT, dbcHandle), before the try block.          *)
(***************************************************************************)
AllocHandle ==
    /\ UNCHANGED <<rtVars, dgVars, cqVars, dsVars, drVars>>
    /\ pc = "alloc"
    /\ \E ok \in BOOLEAN :
          /\ Driver(Resp(ok, 0, 0))
          /\ IF ok
             THEN /\ stmtHandle' = STMT
                  /\ pc' = "bindParams"
                  /\ i' = 1
                  /\ NoRaise
             ELSE /\ Raise(Err("SQLAllocHandle failed"), "settle")
                  /\ UNCHANGED <<stmtHandle, i>>
    /\ calls' = Append(calls, Call("SQLAllocHandle", 0))
    /\ NoDeliver
    /\ UNCHANGED <<op, entry, dbcHandle, parameters, chunkSize, paramBindings,
                   colBindings, mem, rows, buffer, colCount, numAffectedRows,
                   consumer, requestResult, result, replay, fetched>>

(***************************************************************************)
(* OdbcRequest.#bindParams: one iteration of its loop.                     *)
(***************************************************************************)
BindParam ==
    /\ UNCHANGED <<rtVars, dgVars, cqVars, dsVars, drVars>>
    /\ pc = "bindParams"
    /\ i <= Len(parameters)
    /\ LET odbcParam == GetParamBinding(parameters[i])
       IN  IF ~odbcParam.ok
           THEN /\ Raise(Err("Unsupported data type"), AfterThrow)
                /\ NoDriver
                /\ UNCHANGED <<calls, paramBindings, i>>
           ELSE /\ calls' = Append(calls, Call("SQLBindParameter", i))
                /\ \E ok \in BOOLEAN :
                      /\ Driver(Resp(ok, 0, 0))
                      /\ IF ok
                         THEN /\ paramBindings' = Append(paramBindings, odbcParam)
                              /\ i' = i + 1
                              /\ pc' = pc
                              /\ NoRaise
                         ELSE /\ Raise(Err("SQLBindParameter failed"), AfterThrow)
                              /\ UNCHANGED <<paramBindings, i>>
    /\ NoDeliver
    /\ UNCHANGED <<op, entry, dbcHandle, parameters, chunkSize, stmtHandle,
                   colBindings, mem, rows, buffer, colCount, numAffectedRows,
                   consumer, requestResult, result, replay, fetched>>

(***************************************************************************)
(* execDirect(sql, stmtHandle): the call, and what it resolves with.       *)
(***************************************************************************)
\* Faulty variant: execDirect issued while the last parameter is still unbound.
ExecDirectBeforeLastBind ==
    /\ UNCHANGED <<rtVars, dgVars, cqVars, dsVars, drVars>>
    /\ pc = "bindParams"
    /\ i >= Len(parameters)
    /\ calls' = Append(calls, Call("SQLExecDirectW", 0))
    /\ pc' = "awaitExec"
    /\ NoRaise
    /\ NoDriver
    /\ NoDeliver
    /\ UNCHANGED <<op, entry, dbcHandle, parameters, chunkSize, stmtHandle,
                   paramBindings, colBindings, mem, rows, buffer, i, colCount,
                   numAffectedRows, consumer, requestResult, result, replay,
                   fetched>>

ExecDirectCall ==
    /\ UNCHANGED <<rtVars, dgVars, cqVars, dsVars, drVars>>
    /\ pc = "bindParams"
    /\ i > Len(parameters)
    /\ calls' = Append(calls, Call("SQLExecDirectW", 0))
    /\ pc' = "awaitExec"
    /\ NoRaise
    /\ NoDriver
    /\ NoDeliver
    /\ UNCHANGED <<op, entry, dbcHandle, parameters, chunkSize, stmtHandle,
                   paramBindings, colBindings, mem, rows, buffer, i, colCount,
                   numAffectedRows, consumer, requestResult, result, replay,
                   fetched>>

ExecDirectReturn ==
    /\ UNCHANGED <<rtVars, dgVars, cqVars, dsVars, drVars>>
    /\ pc = "awaitExec"
    /\ \E resp \in ExecResponses :
          /\ Driver(resp)
          /\ IF ~resp.ok
             THEN /\ Raise(ErrWith("Execution Error", GetOdbcError(resp.b)),
                           AfterThrow)
                  /\ calls' = calls \o DiagCalls(resp.b)
                  /\ NoDeliver
                  /\ UNCHANGED <<colCount, numAffectedRows, i>>
             ELSE /\ colCount' = resp.a
                  /\ numAffectedRows' = resp.b
                  /\ UNCHANGED <<calls, thrown>>
                  /\ IF op = "execute"
                     THEN /\ IF HasColumns(resp.a)
                             THEN pc' = "bindCols" /\ i' = 1
                             ELSE pc' = "finally" /\ i' = i
                          /\ completion' = Normal
                          /\ NoDeliver
                     ELSE IF NoColumns(resp.a)
                          THEN /\ Deliver(Chunked(<<>>))
                               /\ pc' = "susp_empty"
                               /\ UNCHANGED <<completion, i>>
                          ELSE /\ pc' = "bindCols"
                               /\ i' = 1
                               /\ NoDeliver
                               /\ UNCHANGED completion
    /\ UNCHANGED <<op, entry, dbcHandle, parameters, chunkSize, stmtHandle,
                   paramBindings, colBindings, mem, rows, buffer, consumer,
                   requestResult, result, replay, fetched>>

(***************************************************************************)
(* OdbcRequest.#bindCols: one iteration of its loop.                       *)
(***************************************************************************)
BindCol ==
    /\ UNCHANGED <<rtVars, dgVars, cqVars, dsVars, drVars>>
    /\ pc = "bindCols"
    /\ i <= colCount
    /\ \E resp \in ColResponses(i) :
          /\ Driver(resp)
          /\ IF ~resp.ok
             THEN /\ Raise(Err("SQLDescribeCol failed"), AfterThrow)
                  /\ calls' = Append(calls, Call("SQLDescribeColW", i))
                  /\ UNCHANGED <<colBindings, mem, i>>
             ELSE LET desc == ColDescs(i)[resp.a]
                      binding == GetColBinding(desc.dataType, desc.columnSize)
                  IN  IF ColSizeRejected(desc.columnSize)
                      THEN /\ Raise(Err("Unable to bind column"), AfterThrow)
                           /\ calls' = Append(calls, Call("SQLDescribeColW", i))
                           /\ UNCHANGED <<colBindings, mem, i>>
                      ELSE IF ~binding.ok
                      THEN /\ Raise(Err(IF binding = RangeErrorBinding
                                        THEN "Invalid typed array length"
                                        ELSE "Unsupported SQL dataType"),
                                    AfterThrow)
                           /\ calls' = Append(calls, Call("SQLDescribeColW", i))
                           /\ UNCHANGED <<colBindings, mem, i>>
                      ELSE /\ calls' = calls \o <<Call("SQLDescribeColW", i),
                                                  Call("SQLBindCol", i)>>
                           /\ IF resp.b = 1
                              THEN /\ Raise(Err("SQLBindCol failed"), AfterThrow)
                                   /\ UNCHANGED <<colBindings, mem, i>>
                              ELSE /\ mem' = Append(mem, binding)
                                   /\ colBindings' =
                                         MapSet(colBindings, desc.name, Len(mem) + 1)
                                   /\ i' = i + 1
                                   /\ pc' = pc
                                   /\ NoRaise
    /\ NoDeliver
    /\ UNCHANGED <<op, entry, dbcHandle, parameters, chunkSize, stmtHandle,
                   paramBindings, rows, buffer, colCount, numAffectedRows,
                   consumer, requestResult, result, replay, fetched>>

(***************************************************************************)
(* OdbcRequest.#fetchRow: fetch(stmtHandle) is called, and the loop body   *)
(* of execute / stream runs on what it resolves with.                      *)
(***************************************************************************)
\* Faulty variant: a pull that is waiting starts a fetch of its own while
\* the fetch of the pull before it is still outstanding.
FetchCallPerPull ==
    /\ UNCHANGED <<rtVars, dgVars, cqVars, dsVars, drVars>>
    /\ \/ pc = "bindCols" /\ i > colCount
       \/ pc = "fetch"
       \/ /\ pc = "awaitFetch"
          /\ Len(queue) > 1
          /\ Cardinality({k \in DOMAIN calls : calls[k].fn = "SQLFetch"})
                <= fetched + 1
    /\ calls' = Append(calls, Call("SQLFetch", 0))
    /\ pc' = "awaitFetch"
    /\ NoRaise
    /\ NoDriver
    /\ NoDeliver
    /\ UNCHANGED <<op, entry, dbcHandle, parameters, chunkSize, stmtHandle,
                   paramBindings, colBindings, mem, rows, buffer, i, colCount,
                   numAffectedRows, consumer, requestResult, result, replay,
                   fetched>>

FetchCall ==
    /\ UNCHANGED <<rtVars, dgVars, cqVars, dsVars, drVars>>
    /\ \/ pc = "bindCols" /\ i > colCount
       \/ pc = "fetch"
    /\ calls' = Append(calls, Call("SQLFetch", 0))
    /\ pc' = "awaitFetch"
    /\ NoRaise
    /\ NoDriver
    /\ NoDeliver
    /\ UNCHANGED <<op, entry, dbcHandle, parameters, chunkSize, stmtHandle,
                   paramBindings, colBindings, mem, rows, buffer, i, colCount,
                   numAffectedRows, consumer, requestResult, result, replay,
                   fetched>>

\* Faulty variant: a row that comes with diagnostic info is skipped.
FetchRowSkipsInfoRows ==
    /\ UNCHANGED <<rtVars, dgVars, cqVars, dsVars, drVars>>
    /\ pc = "awaitFetch"
    /\ \E resp \in FetchResponses :
          /\ resp.a \in {SQL_SUCCESS, SQL_SUCCESS_WITH_INFO}
          /\ Driver(resp)
          /\ LET written == [o \in DOMAIN mem |-> DriverWrite(fetched + 1, mem[o])]
                 read == ReadRow(colBindings, written)
             IN  /\ mem' = written
                 /\ fetched' = fetched + 1
                 /\ NoRaise
                 /\ IF resp.a = SQL_SUCCESS_WITH_INFO
                    THEN /\ pc' = "fetch"
                         /\ NoDeliver
                         /\ UNCHANGED <<rows, buffer>>
                    ELSE IF op = "execute"
                    THEN /\ rows' = Append(rows, read.row)
                         /\ pc' = "fetch"
                         /\ NoDeliver
                         /\ UNCHANGED buffer
                    ELSE /\ buffer' = Append(buffer, read.row)
                         /\ UNCHANGED rows
                         /\ IF ChunkFull(buffer', chunkSize)
                            THEN Deliver(Chunked(buffer')) /\ pc' = "susp_chunk"
                            ELSE NoDeliver /\ pc' = "fetch"
    /\ UNCHANGED <<op, entry, dbcHandle, parameters, chunkSize, stmtHandle,
                   paramBindings, colBindings, i, colCount, numAffectedRows,
                   consumer, requestResult, result, calls, replay>>

\* status is SQL_SUCCESS or SQL_SUCCESS_WITH_INFO: the row is read and handed on.
FetchRow ==
    /\ UNCHANGED <<rtVars, dgVars, cqVars, dsVars, drVars>>
    /\ pc = "awaitFetch"
    /\ \E resp \in FetchResponses :
          /\ resp.a \in {SQL_SUCCESS, SQL_SUCCESS_WITH_INFO}
          /\ Driver(resp)
          /\ LET written == [o \in DOMAIN mem |-> DriverWrite(fetched + 1, mem[o])]
                 read == ReadRow(colBindings, written)
             IN  /\ mem' = written
                 /\ fetched' = fetched + 1
                 /\ IF ~read.ok
                    THEN /\ Raise(Err("Unknown binding C-Type"), AfterThrow)
                         /\ NoDeliver
                         /\ UNCHANGED <<rows, buffer>>
                    ELSE IF op = "execute"
                    THEN /\ rows' = Append(rows, read.row)
                         /\ pc' = "fetch"
                         /\ NoRaise
                         /\ NoDeliver
                         /\ UNCHANGED buffer
                    ELSE /\ buffer' = Append(buffer, read.row)
                         /\ NoRaise
                         /\ UNCHANGED rows
                         /\ IF ChunkFull(buffer', chunkSize)
                            THEN Deliver(Chunked(buffer')) /\ pc' = "susp_chunk"
                            ELSE NoDeliver /\ pc' = "fetch"
    /\ UNCHANGED <<op, entry, dbcHandle, parameters, chunkSize, stmtHandle,
                   paramBindings, colBindings, i, colCount, numAffectedRows,
                   consumer, requestResult, result, calls, replay>>

\* status is SQL_NO_DATA: the loop ends.
FetchNoData ==
    /\ UNCHANGED <<rtVars, dgVars, cqVars, dsVars, drVars>>
    /\ pc = "awaitFetch"
    /\ Driver(Resp(TRUE, SQL_NO_DATA, 0))
    /\ IF op = "stream" /\ HasPartial(buffer)
       THEN /\ Deliver(Chunked(buffer))
            /\ pc' = "susp_last"
            /\ NoRaise
       ELSE /\ completion' = Normal
            /\ pc' = "finally"
            /\ NoDeliver
            /\ UNCHANGED thrown
    /\ UNCHANGED <<op, entry, dbcHandle, parameters, chunkSize, stmtHandle,
                   paramBindings, colBindings, mem, rows, buffer, i, colCount,
                   numAffectedRows, consumer, requestResult, result, calls,
                   replay, fetched>>

\* status is SQL_ERROR, or a status #fetchRow does not know.
FetchFail ==
    /\ UNCHANGED <<rtVars, dgVars, cqVars, dsVars, drVars>>
    /\ pc = "awaitFetch"
    /\ \E resp \in FetchResponses :
          /\ resp.a \in {SQL_ERROR, SQL_INVALID_HANDLE}
          /\ Driver(resp)
          /\ IF resp.a = SQL_ERROR
             THEN /\ calls' = calls \o DiagCalls(resp.b)
                  /\ Raise(ErrWith("SQLFetch failed", GetOdbcError(resp.b)),
                           AfterThrow)
             ELSE /\ calls' = calls
                  /\ Raise(Err("SQLFetch returned unexpected status"), AfterThrow)
    /\ NoDeliver
    /\ UNCHANGED <<op, entry, dbcHandle, parameters, chunkSize, stmtHandle,
                   paramBindings, colBindings, mem, rows, buffer, i, colCount,
                   numAffectedRows, consumer, requestResult, result, replay,
                   fetched>>

(***************************************************************************)
(* The generator of stream, suspended at a yield, takes the next request.  *)
(***************************************************************************)
ResumeNext ==
    /\ UNCHANGED <<rtVars, dgVars, cqVars, dsVars, drVars>>
    /\ op = "stream"
    /\ queue # <<>>
    /\ Head(queue) = "next"
    /\ \/ pc = "susp_chunk" /\ buffer' = <<>> /\ pc' = "fetch"
       \/ pc \in {"susp_empty", "susp_last"} /\ buffer' = buffer /\ pc' = "finally"
    /\ completion' = Normal
    /\ UNCHANGED thrown
    /\ NoDriver
    /\ NoDeliver
    /\ UNCHANGED <<op, entry, dbcHandle, parameters, chunkSize, stmtHandle,
                   paramBindings, colBindings, mem, rows, i, colCount,
                   numAffectedRows, consumer, requestResult, result, calls,
                   replay, fetched>>

\* return() reaches the generator at its yield: the finally block runs.
ResumeReturn ==
    /\ UNCHANGED <<rtVars, dgVars, cqVars, dsVars, drVars>>
    /\ op = "stream"
    /\ pc \in {"susp_empty", "susp_chunk", "susp_last"}
    /\ queue # <<>>
    /\ Head(queue) = "return"
    /\ completion' = Returned
    /\ pc' = "finally"
    /\ UNCHANGED thrown
    /\ NoDriver
    /\ NoDeliver
    /\ UNCHANGED <<op, entry, dbcHandle, parameters, chunkSize, stmtHandle,
                   paramBindings, colBindings, mem, rows, buffer, i, colCount,
                   numAffectedRows, consumer, requestResult, result, calls,
                   replay, fetched>>

\* Faulty variant: a cleanup that frees the handle and keeps the column registry.
CleanupKeepsColumns ==
    /\ UNCHANGED <<rtVars, dgVars, cqVars, dsVars, drVars>>
    /\ pc = "finally"
    /\ calls' = Append(calls, Call("SQLFreeHandle", HandleId(stmtHandle)))
    /\ stmtHandle' = NULL
    /\ paramBindings' = <<>>
    /\ pc' = "settle"
    /\ NoRaise
    /\ NoDriver
    /\ NoDeliver
    /\ UNCHANGED <<op, entry, dbcHandle, parameters, chunkSize, rows, buffer,
                   i, colCount, numAffectedRows, consumer, requestResult,
                   result, replay, fetched, colBindings, mem>>

\* Faulty variant: a cleanup that also releases the connection it borrowed.
CleanupFreesConnection ==
    /\ UNCHANGED <<rtVars, dgVars, cqVars, dsVars, drVars>>
    /\ pc = "finally"
    /\ calls' = calls \o <<Call("SQLFreeHandle", HandleId(stmtHandle)),
                            Call("SQLFreeHandle", HandleId(dbcHandle))>>
    /\ stmtHandle' = NULL
    /\ dbcHandle' = NULL
    /\ paramBindings' = <<>>
    /\ colBindings' = <<>>
    /\ mem' = <<>>
    /\ pc' = "settle"
    /\ NoRaise
    /\ NoDriver
    /\ NoDeliver
    /\ UNCHANGED <<op, entry, parameters, chunkSize, rows, buffer,
                   i, colCount, numAffectedRows, consumer, requestResult,
                   result, replay, fetched>>

(***************************************************************************)
(* OdbcRequest.#cleanup, the finally block of execute / stream.            *)
(***************************************************************************)
Cleanup ==
    /\ UNCHANGED <<rtVars, dgVars, cqVars, dsVars, drVars>>
    /\ pc = "finally"
    /\ calls' = Append(calls, Call("SQLFreeHandle", HandleId(stmtHandle)))
    /\ stmtHandle' = NULL
    /\ paramBindings' = <<>>
    /\ colBindings' = <<>>
    /\ mem' = <<>>
    /\ pc' = "settle"
    /\ NoRaise
    /\ NoDriver
    /\ NoDeliver
    /\ UNCHANGED <<op, entry, dbcHandle, parameters, chunkSize, rows, buffer,
                   i, colCount, numAffectedRows, consumer, requestResult,
                   result, replay, fetched>>

(***************************************************************************)
(* The call settles: the promise of execute, or the request of the         *)
(* consumer the generator of stream was serving.                           *)
(***************************************************************************)
Settle ==
    /\ UNCHANGED <<rtVars, dgVars, cqVars, dsVars, drVars>>
    /\ pc = "settle"
    /\ IF op = "execute"
       THEN /\ requestResult' =
                  IF completion.type = "throw"
                  THEN [NoResult EXCEPT !.state = "rejected", !.err = completion.err]
                  ELSE [NoResult EXCEPT !.state = "fulfilled", !.rows = rows,
                                        !.count = numAffectedRows, !.defined = TRUE]
            /\ pc' = "settled"
            /\ NoDeliver
       ELSE /\ Deliver(IF completion.type = "throw"
                       THEN Failed(completion.err) ELSE Done)
            /\ pc' = "done"
            /\ UNCHANGED requestResult
    /\ NoRaise
    /\ NoDriver
    /\ UNCHANGED <<op, entry, dbcHandle, parameters, chunkSize, stmtHandle,
                   paramBindings, colBindings, mem, rows, buffer, i, colCount,
                   numAffectedRows, consumer, result, calls, replay, fetched>>

\* OdbcConnection.executeQuery after request.execute() settled.
ExecuteQueryReturn ==
    /\ UNCHANGED <<rtVars, dgVars, cqVars, dsVars, drVars>>
    /\ op = "execute"
    /\ pc = "settled"
    /\ result' =
          IF requestResult.state = "rejected" THEN requestResult
          ELSE [requestResult EXCEPT
                   !.defined = (requestResult.count # -1),
                   !.count = IF requestResult.count # -1
                             THEN requestResult.count ELSE 0]
    /\ pc' = "done"
    /\ NoRaise
    /\ NoDriver
    /\ NoDeliver
    /\ UNCHANGED <<op, entry, dbcHandle, parameters, chunkSize, stmtHandle,
                   paramBindings, colBindings, mem, rows, buffer, i, colCount,
                   numAffectedRows, consumer, requestResult, calls, replay,
                   fetched>>

\* A request made of a generator that has completed is answered done.
DrainDone ==
    /\ UNCHANGED <<rtVars, dgVars, cqVars, dsVars, drVars>>
    /\ op = "stream"
    /\ pc = "done"
    /\ queue # <<>>
    /\ Deliver(Done)
    /\ NoRaise
    /\ NoDriver
    /\ UNCHANGED <<op, entry, dbcHandle, parameters, chunkSize, pc, stmtHandle,
                   paramBindings, colBindings, mem, rows, buffer, i, colCount,
                   numAffectedRows, consumer, requestResult, result, calls,
                   replay, fetched>>

(***************************************************************************)
(* The consumer of the stream: it pulls (also ahead of the answers), calls *)
(* return(), or stops without a word.                                      *)
(***************************************************************************)
Pull ==
    /\ UNCHANGED <<rtVars, dgVars, cqVars, dsVars, drVars>>
    /\ op = "stream"
    /\ consumer = "pulling"
    /\ ConsumerCanRun
    /\ ~EndSeen
    /\ Len(queue) < MaxQueue
    /\ queue' = Append(queue, "next")
    /\ UNCHANGED <<op, entry, dbcHandle, parameters, chunkSize, pc, stmtHandle,
                   paramBindings, colBindings, mem, rows, buffer, i, colCount,
                   numAffectedRows, completion, consumer, delivered,
                   requestResult, result, calls, driverLog, cursor, replay,
                   fetched, thrown>>

Return ==
    /\ UNCHANGED <<rtVars, dgVars, cqVars, dsVars, drVars>>
    /\ op = "stream"
    /\ consumer = "pulling"
    /\ ConsumerCanRun
    /\ ~EndSeen
    /\ Len(queue) < MaxQueue
    /\ queue' = Append(queue, "return")
    /\ consumer' = "returned"
    /\ UNCHANGED <<op, entry, dbcHandle, parameters, chunkSize, pc, stmtHandle,
                   paramBindings, colBindings, mem, rows, buffer, i, colCount,
                   numAffectedRows, completion, delivered, requestResult,
                   result, calls, driverLog, cursor, replay, fetched, thrown>>

Abandon ==
    /\ UNCHANGED <<rtVars, dgVars, cqVars, dsVars, drVars>>
    /\ op = "stream"
    /\ consumer = "pulling"
    /\ ConsumerCanRun
    /\ ~EndSeen
    /\ consumer' = "stopped"
    /\ UNCHANGED <<op, entry, dbcHandle, parameters, chunkSize, pc, stmtHandle,
                   paramBindings, colBindings, mem, rows, buffer, i, colCount,
                   numAffectedRows, completion, queue, delivered, requestResult,
                   result, calls, driverLog, cursor, replay, fetched, thrown>>

(***************************************************************************)
(* The statement execute has answered is run again through streamQuery,    *)
(* the driver answering as it did.                                         *)
(***************************************************************************)
StreamSameStatement ==
    /\ UNCHANGED <<rtVars, dgVars, cqVars, dsVars, drVars>>
    /\ op = "execute"
    /\ pc = "done"
    /\ result.state = "fulfilled"
    /\ ~replay
    /\ \E c \in ValidChunks : chunkSize' = c
    /\ op' = "stream"
    /\ entry' = "connection"
    /\ replay' = TRUE
    /\ cursor' = 1
    /\ pc' = "start"
    /\ rows' = <<>>
    /\ i' = 0
    /\ colCount' = 0
    /\ numAffectedRows' = 0
    /\ fetched' = 0
    /\ calls' = <<>>
    /\ consumer' = "pulling"
    /\ requestResult' = NoResult
    /\ UNCHANGED <<dbcHandle, parameters, stmtHandle, paramBindings,
                   colBindings, mem, buffer, completion, queue, delivered,
                   result, driverLog, thrown>>

Next ==
    \/ ExecuteQuery
    \/ StreamStart
    \/ StreamReturnBeforeStart
    \/ AllocHandle
    \/ BindParam
    \/ ExecDirectCall
    \/ ExecDirectReturn
    \/ BindCol
    \/ FetchCall
    \/ FetchRow
    \/ FetchNoData
    \/ FetchFail
    \/ ResumeNext
    \/ ResumeReturn
    \/ Cleanup
    \/ Settle
    \/ ExecuteQueryReturn
    \/ DrainDone
    \/ Pull
    \/ Return
    \/ Abandon
    \/ StreamSameStatement

Spec == Init /\ [][Next]_vars

(***************************************************************************)
(* Round trip of one parameter value through `select ?`: #getParamBinding  *)
(* maps it, the driver describes and returns the echoed column,            *)
(* #getColBinding binds that column and #readRow decodes it.               *)
(***************************************************************************)
\* Whole numbers a double holds exactly, around the 32-bit and 64-bit limits.
NumberWholes ==
    {SmallBig(n) : n \in {-1, 0, 1, 7}}
    \cup {Big(0, 0, 0, HalfLimb - 1, Limb - 1),          \* 2^31 - 1
          Big(0, 0, 0, HalfLimb, 0),                     \* 2^31
          Big(-1, Limb - 1, Limb - 1, HalfLimb, 0),      \* -2^31
          Big(-1, Limb - 1, Limb - 1, HalfLimb - 1, Limb - 1), \* -2^31 - 1
          Big(0, HalfLimb, 0, 0, 0),                     \* 2^63
          Big(-1, HalfLimb, 0, 0, 0),                    \* -2^63
          Big(1, 0, 0, 0, 0)}                            \* 2^64

BigIntWholes ==
    NumberWholes
    \cup {Big(0, HalfLimb - 1, Limb - 1, Limb - 1, Limb - 1),   \* 2^63 - 1
          Big(-1, HalfLimb - 1, Limb - 1, Limb - 1, Limb - 1)}  \* -2^63 - 1

Strings == UNION {[1..n -> {97, 20013}] : n \in 0..MaxStrLen}

SupportedValues ==
    {JsNull}
    \cup {JsNumber(b, 0) : b \in NumberWholes}
    \cup {JsBigInt(b) : b \in BigIntWholes}
    \cup {JsNumber(SmallBig(n), 1) : n \in {-1, 0, 2}}
    \cup {JsBool(t) : t \in BOOLEAN}
    \cup {JsString(u) : u \in Strings}

RoundTripValues == SupportedValues \cup {JsSymbol, JsObject, JsFunction}

\* The column the driver describes for the echoed parameter: the native type
\* of the descriptor; a NULL parameter has no type of its own.
EchoTypes(param) ==
    IF param.lenIndBuf = SQL_NULL_DATA THEN {"SQL_CHAR", "SQL_INTEGER"}
    ELSE {param.sqlType}

EchoSizes(param) ==
    LET n == IF param.columnSize > 1 THEN param.columnSize ELSE 1
    IN  {n, n + 1}

\* What the fetch leaves in the bound column: the bytes of the parameter.
EchoWrite(param, col) ==
    IF param.lenIndBuf = SQL_NULL_DATA
    THEN [col EXCEPT !.lenIndBuf = SQL_NULL_DATA]
    ELSE IF col.cType = "SQL_C_WCHAR"
    THEN [col EXCEPT !.buf = [k \in 1..Len(col.buf) |->
                                 IF k <= Len(param.buf) THEN param.buf[k] ELSE 0],
                     !.lenIndBuf = (Len(param.buf) - 1) * 2]
    ELSE [col EXCEPT !.buf = param.buf, !.lenIndBuf = param.bufLen]

RoundTripInit ==
    /\ NewRequest(Scenario("execute", "connection", DBC, <<>>, Chunk(1, 1)))
    /\ NoDiag
    /\ NoCalls
    /\ NoDestroy
    /\ NoPool
    /\ rtPc = "map"
    /\ rtVal \in RoundTripValues
    /\ rtParam = NoParamBinding
    /\ rtCol = NoColBinding
    /\ rtOut = DecodeError

RtMap ==
    /\ rtPc = "map"
    /\ rtParam' = GetParamBinding(rtVal)
    /\ rtPc' = IF rtParam'.ok THEN "bindCol" ELSE "failed"
    /\ UNCHANGED <<rtVal, rtCol, rtOut>>
    /\ UNCHANGED <<requestVars, dgVars, cqVars, dsVars, drVars>>

RtBindCol ==
    /\ rtPc = "bindCol"
    /\ \E t \in EchoTypes(rtParam), size \in EchoSizes(rtParam) :
          LET binding == GetColBinding(t, size)
          IN  IF ColSizeRejected(size) \/ ~binding.ok
              THEN rtPc' = "failed" /\ rtCol' = rtCol
              ELSE rtPc' = "fetch" /\ rtCol' = binding
    /\ UNCHANGED <<rtVal, rtParam, rtOut>>
    /\ UNCHANGED <<requestVars, dgVars, cqVars, dsVars, drVars>>

RtFetch ==
    /\ rtPc = "fetch"
    /\ rtCol' = EchoWrite(rtParam, rtCol)
    /\ rtPc' = "read"
    /\ UNCHANGED <<rtVal, rtParam, rtOut>>
    /\ UNCHANGED <<requestVars, dgVars, cqVars, dsVars, drVars>>

RtReadRow ==
    /\ rtPc = "read"
    /\ rtOut' = ReadCell(rtCol)
    /\ rtPc' = "decoded"
    /\ UNCHANGED <<rtVal, rtParam, rtCol>>
    /\ UNCHANGED <<requestVars, dgVars, cqVars, dsVars, drVars>>

RoundTripNext ==
    \/ RtMap
    \/ RtBindCol
    \/ RtFetch
    \/ RtReadRow

RoundTripSpec == RoundTripInit /\ [][RoundTripNext]_vars

(***************************************************************************)
(* The stream under a runtime that runs every step of the request that can *)
(* run.  Nothing obliges the consumer to pull, to return or to stop.       *)
(***************************************************************************)
RequestStep ==
    \/ ExecuteQuery
    \/ StreamStart
    \/ StreamReturnBeforeStart
    \/ AllocHandle
    \/ BindParam
    \/ ExecDirectCall
    \/ ExecDirectReturn
    \/ BindCol
    \/ FetchCall
    \/ FetchRow
    \/ FetchNoData
    \/ FetchFail
    \/ ResumeNext
    \/ ResumeReturn
    \/ Cleanup
    \/ Settle
    \/ ExecuteQueryReturn
    \/ DrainDone

FairSpec == Spec /\ WF_vars(RequestStep)

(***************************************************************************)
(* Properties.                                                             *)
(***************************************************************************)
CallCount(fn) == Cardinality({k \in DOMAIN calls : calls[k].fn = fn})

\* The first native call of a request is the allocation of its statement handle.
HandleAllocated == cursor > 1 /\ driverLog[1].ok

RegistriesEmpty == paramBindings = <<>> /\ colBindings = <<>>

CleanedUp == CallCount("SQLFreeHandle") = 1 /\ RegistriesEmpty /\ stmtHandle = NULL

IsChunk(x) == x.type = "chunk"
IsError(x) == x.type = "error"

Chunks == SelectSeq(delivered, IsChunk)

RECURSIVE Flatten(_)
Flatten(cs) == IF cs = <<>> THEN <<>> ELSE Head(cs).rows \o Flatten(Tail(cs))

PositiveInteger(c) == IsInteger(c) /\ c.n > 0

\* The stream ran to exhaustion: its body completed normally.
FullyConsumed == op = "stream" /\ pc = "done" /\ completion = Normal

ExecDirectSucceeded ==
    /\ CallCount("SQLExecDirectW") = 1
    /\ pc # "awaitExec"
    /\ thrown.kind # "Execution Error"

FetchFailed == thrown.kind = "SQLFetch failed"

\* C1: in every run of execute that allocated the statement handle, whatever
\* step fails or none, SQLFreeHandle is issued at most once, and when execute
\* has settled it was issued exactly once and both binding registries are empty.
C1_FreedOnceRegistriesEmpty ==
    (op = "execute" /\ HandleAllocated) =>
        /\ CallCount("SQLFreeHandle") <= 1
        /\ pc \in {"settled", "done"} => CleanedUp

C1_Witness ==
    /\ op = "execute"
    /\ HandleAllocated
    /\ pc = "settled"
    /\ requestResult.state = "rejected"
    /\ FetchFailed
    /\ Len(rows) = 2
    /\ Len(parameters) = 2

\* C2: a streamed statement whose consumer stopped pulling, with or without
\* calling return(), eventually has its statement handle freed and its
\* parameter and column buffers released.
C2_CancelledStreamCleansUp ==
    (op = "stream" /\ stmtHandle = STMT /\ consumer \in {"stopped", "returned"})
        ~> CleanedUp

\* The consumer dropped the iterator while the generator was suspended at a
\* yield: the handle is allocated, nothing was freed, no step of the request
\* can run.
C2_Witness ==
    /\ op = "stream"
    /\ consumer = "stopped"
    /\ pc = "susp_chunk"
    /\ queue = <<>>
    /\ stmtHandle = STMT
    /\ colBindings # <<>>
    /\ CallCount("SQLFreeHandle") = 0
    /\ ~ENABLED RequestStep

\* C3: a stream with positive integer chunkSize k over n rows of at least one
\* column, run to exhaustion, emitted ceil(n/k) chunks, each of k rows but the
\* last, which holds n mod k rows (k when that is 0); no chunk is empty.
C3_ChunkSizes ==
    (FullyConsumed /\ PositiveInteger(chunkSize) /\ colCount >= 1) =>
        LET k == chunkSize.n \div chunkSize.d
            n == fetched
            cs == Chunks
        IN  /\ Len(cs) = (n + k - 1) \div k
            /\ \A j \in DOMAIN cs :
                  /\ cs[j].rows # <<>>
                  /\ Len(cs[j].rows) = IF j < Len(cs) THEN k
                                       ELSE IF n % k = 0 THEN k ELSE n % k

C3_Witness ==
    /\ FullyConsumed
    /\ colCount >= 1
    /\ chunkSize = Chunk(MaxChunk, 1)
    /\ fetched = MaxRows
    /\ Len(Chunks) = (MaxRows + MaxChunk - 1) \div MaxChunk

\* C4: run against the driver answers execute got, a stream run to exhaustion
\* emitted chunks whose concatenation is the rows array execute returned.
C4_StreamConcatEqualsExecute ==
    (replay /\ FullyConsumed) => Flatten(Chunks) = result.rows

C4_Witness ==
    /\ replay
    /\ FullyConsumed
    /\ Len(result.rows) = MaxRows
    /\ Len(Chunks) >= 2
    /\ colCount = MaxCols

\* C5: a stream called with a chunkSize that is zero, negative or not an
\* integer issues no native call, through streamQuery and through
\* OdbcRequest.stream alike.
C5_InvalidChunkSizeNoNativeCall ==
    (op = "stream" /\ ~PositiveInteger(chunkSize)) => calls = <<>>

\* C6: after execDirect reported zero columns no describe, bind-column or fetch
\* call is issued; execute returns an empty rows array; stream delivers one chunk
\* with an empty rows array and after it nothing but the end.
C6_ZeroColumns ==
    (ExecDirectSucceeded /\ colCount = 0) =>
        /\ CallCount("SQLDescribeColW") = 0
        /\ CallCount("SQLBindCol") = 0
        /\ CallCount("SQLFetch") = 0
        /\ (op = "execute" /\ pc \in {"settled", "done"}) =>
              /\ requestResult.state = "fulfilled"
              /\ requestResult.rows = <<>>
        /\ op = "stream" =>
              /\ delivered # <<>>
              /\ delivered[1] = Chunked(<<>>)
              /\ \A k \in 2..Len(delivered) : delivered[k] = Done
              /\ pc \in {"susp_empty", "finally", "settle", "done"}

C6_Witness ==
    /\ op = "stream"
    /\ ExecDirectSucceeded
    /\ colCount = 0
    /\ FullyConsumed
    /\ delivered = <<Chunked(<<>>), Done>>

\* C7: when a failure was raised after the statement handle was allocated, the
\* awaiter of execute or the puller of the stream has the error only once
\* SQLFreeHandle was issued and the registries were cleared, and the error it
\* has is the one that was raised.
C7_ErrorAfterCleanup ==
    HandleAllocated =>
        /\ \A k \in DOMAIN delivered :
              IsError(delivered[k]) =>
                 (CleanedUp /\ delivered[k].err = thrown /\ thrown # NoErr)
        /\ requestResult.state = "rejected" =>
              (CleanedUp /\ requestResult.err = thrown /\ thrown # NoErr)
        /\ (op = "execute" /\ result.state = "rejected") =>
              (CleanedUp /\ result.err = thrown)
        /\ (thrown # NoErr /\ pc = "done" /\ op = "stream") =>
              \E k \in DOMAIN delivered : IsError(delivered[k])
        /\ (thrown # NoErr /\ pc = "done" /\ op = "execute") =>
              result.state = "rejected"

C7_Witness ==
    /\ op = "stream"
    /\ HandleAllocated
    /\ Len(delivered) = 2
    /\ IsChunk(delivered[1])
    /\ IsError(delivered[2])
    /\ FetchFailed

\* C8: when a fetch reported SQL_ERROR after m rows, the error raised carries
\* the diagnostic records of the statement (the fallback text when there are
\* none), no fetch follows the failed one, execute and stream end with that
\* error, and a stream with chunkSize k had delivered floor(m/k) chunks of k
\* rows when the error was raised.
C8_FetchError ==
    FetchFailed =>
        LET r == driverLog[Len(driverLog)].b
        IN  /\ thrown.info = IF r = 0 THEN <<0>> ELSE [k \in 1..r |-> k]
            /\ CallCount("SQLFetch") = fetched + 1
            /\ driverLog[Len(driverLog)].a = SQL_ERROR
            /\ (op = "execute" /\ pc \in {"settled", "done"}) =>
                  requestResult = [NoResult EXCEPT !.state = "rejected",
                                                   !.err = thrown]
            /\ (op = "stream" /\ PositiveInteger(chunkSize)) =>
                  LET k == chunkSize.n \div chunkSize.d
                  IN  /\ Len(Chunks) = fetched \div k
                      /\ \A j \in DOMAIN Chunks : Len(Chunks[j].rows) = k
                      /\ pc = "done" =>
                            /\ Len(delivered) > Len(Chunks)
                            /\ delivered[Len(Chunks) + 1] = Failed(thrown)

C8_Witness ==
    /\ op = "stream"
    /\ FetchFailed
    /\ pc = "done"
    /\ fetched = MaxRows
    /\ chunkSize = Chunk(MaxChunk, 1)
    /\ Len(Chunks) = MaxRows \div MaxChunk
    /\ Len(thrown.info) = MaxDiag

\* C9: executeQuery returns numAffectedRows undefined when the count the driver
\* reported is negative, and the count itself when it is zero or more.
C9_AffectedRows ==
    (op = "execute" /\ pc = "done" /\ result.state = "fulfilled") =>
        IF numAffectedRows < 0 THEN ~result.defined
        ELSE result.defined /\ result.count = numAffectedRows

\* C10: a supported parameter value mapped by #getParamBinding and echoed by
\* the driver in the column type of its descriptor is decoded by #readRow to a
\* value of the same kind and the same value; null decodes to null.
C10_RoundTrip ==
    (rtPc = "decoded" /\ rtVal \in SupportedValues) =>
        (rtOut.ok /\ rtOut.val = rtVal)

(***************************************************************************)
(* Order of whole numbers, limb by limb from the top.                      *)
(***************************************************************************)
RECURSIVE LexLeq(_, _)
LexLeq(a, b) ==
    IF a = <<>> THEN TRUE
    ELSE IF Head(a) # Head(b) THEN Head(a) < Head(b)
    ELSE LexLeq(Tail(a), Tail(b))

MinInt32 == Big(-1, Limb - 1, Limb - 1, HalfLimb, 0)
MaxInt32 == Big(0, 0, 0, HalfLimb - 1, Limb - 1)

IsWhole(val) == val.kind = "bigint" \/ (val.kind = "number" /\ val.v[6] = 0)

\* C11: a whole-number parameter (number or bigint) gets the 4-byte signed
\* integer buffer and the integer native type exactly when it lies in
\* [-2147483648, 2147483647], and the 8-byte signed integer buffer and the
\* 64-bit integer native type otherwise.
C11_IntegerWidth ==
    (rtPc # "map" /\ IsWhole(rtVal)) =>
        LET w == SubSeq(rtVal.v, 1, 5)
        IN  IF LexLeq(MinInt32, w) /\ LexLeq(w, MaxInt32)
            THEN /\ rtParam.ok
                 /\ rtParam.cType = "SQL_C_SLONG"
                 /\ rtParam.sqlType = "SQL_INTEGER"
                 /\ rtParam.bufLen = 4
                 /\ Len(rtParam.buf) = 1
            ELSE /\ rtParam.ok
                 /\ rtParam.cType = "SQL_C_SBIGINT"
                 /\ rtParam.sqlType = "SQL_BIGINT"
                 /\ rtParam.bufLen = 8
                 /\ Len(rtParam.buf) = 4

C11_Witness ==
    /\ rtPc = "bindCol"
    /\ rtVal = JsNumber(Big(0, 0, 0, HalfLimb, 0), 0)
    /\ rtParam.cType = "SQL_C_SBIGINT"
    /\ rtParam.bufLen = 8

\* What describeCol answered for column j, once it has answered: the answers
\* of one request are the allocation, one per parameter bound, execDirect,
\* then one per column.
DescribeAnswer(j) == Len(parameters) + 2 + j

Described(j) ==
    /\ ExecDirectSucceeded
    /\ j <= colCount
    /\ DescribeAnswer(j) < cursor
    /\ driverLog[DescribeAnswer(j)].ok

DescribedCol(j) == ColDescs(j)[driverLog[DescribeAnswer(j)].a]

SizeInRange(size) == 0 < size /\ size <= MAX_BIND_SIZE

ErrorObserved ==
    \/ requestResult.state = "rejected"
    \/ \E k \in DOMAIN delivered : IsError(delivered[k])

\* C12: a column described with a size that is zero, negative or above 65536
\* makes the binding fail; no buffer is allocated for it and no bind-column
\* call is issued for it.
C12_SizeOutOfRangeRejected ==
    \A j \in 1..MaxCols :
        (Described(j) /\ ~SizeInRange(DescribedCol(j).columnSize)) =>
            /\ thrown # NoErr
            /\ Len(mem) < j
            /\ \A k \in DOMAIN calls : calls[k] # Call("SQLBindCol", j)

\* C13: when the binding of a column failed on its declared size (0 or above
\* 65536), no fetch is issued, and once the caller has the failure no column
\* binding is registered, those of the columns bound before it included.
C13_NoBindingLeftAfterSizeFailure ==
    thrown.kind = "Unable to bind column" =>
        /\ CallCount("SQLFetch") = 0
        /\ ErrorObserved => (colBindings = <<>> /\ paramBindings = <<>>)
        /\ pc = "done" => ErrorObserved

C13_Witness ==
    /\ thrown.kind = "Unable to bind column"
    /\ op = "execute"
    /\ pc = "settled"
    /\ requestResult.state = "rejected"
    /\ calls[Len(calls) - 2] = Call("SQLBindCol", 1)
    /\ calls[Len(calls) - 1] = Call("SQLDescribeColW", 2)
    /\ colBindings = <<>>

Unsupported(val) == val.kind \in {"object", "function", "symbol"}

DecodeTypes ==
    {"SQL_INTEGER", "SQL_BIGINT", "SQL_FLOAT", "SQL_BIT", "SQL_VARCHAR",
     "SQL_WVARCHAR", "SQL_TYPE_DATE", "SQL_DECIMAL"}

\* Contents a fetch may leave in a buffer of the binding: n leading units set.
Contents(col) ==
    {[k \in 1..Len(col.buf) |-> IF k <= n THEN 1 ELSE 0] : n \in 0..Len(col.buf)}

\* Indicators a fetch may leave: the null sentinel, SQL_NO_TOTAL (-4), and
\* byte lengths up to and beyond the buffer (the length before truncation).
Indicators(col) ==
    {SQL_NULL_DATA, -4, 0, 1, 2, 3, 4, col.bufLen - 2, col.bufLen,
     col.bufLen + 2}

DecodeInit ==
    /\ NewRequest(Scenario("execute", "connection", DBC, <<>>, Chunk(1, 1)))
    /\ NoDiag
    /\ NoCalls
    /\ NoDestroy
    /\ NoPool
    /\ rtPc = "describe"
    /\ rtVal = JsNull
    /\ rtParam = NoParamBinding
    /\ rtCol = NoColBinding
    /\ rtOut = DecodeError

DcBindCol ==
    /\ rtPc = "describe"
    /\ \E t \in DecodeTypes, size \in 1..MaxStrLen :
          LET binding == GetColBinding(t, size)
          IN  IF ColSizeRejected(size) \/ ~binding.ok
              THEN rtPc' = "failed" /\ rtCol' = rtCol
              ELSE rtPc' = "fetch" /\ rtCol' = binding
    /\ UNCHANGED <<rtVal, rtParam, rtOut>>
    /\ UNCHANGED <<requestVars, dgVars, cqVars, dsVars, drVars>>

DcFetch ==
    /\ rtPc = "fetch"
    /\ \E content \in Contents(rtCol), ind \in Indicators(rtCol) :
          rtCol' = [rtCol EXCEPT !.buf = content, !.lenIndBuf = ind]
    /\ rtPc' = "read"
    /\ UNCHANGED <<rtVal, rtParam, rtOut>>
    /\ UNCHANGED <<requestVars, dgVars, cqVars, dsVars, drVars>>

DcReadRow ==
    /\ rtPc = "read"
    /\ rtOut' = ReadCell(rtCol)
    /\ rtPc' = "decoded"
    /\ UNCHANGED <<rtVal, rtParam, rtCol>>
    /\ UNCHANGED <<requestVars, dgVars, cqVars, dsVars, drVars>>

DecodeNext ==
    \/ DcBindCol
    \/ DcFetch
    \/ DcReadRow

DecodeSpec == DecodeInit /\ [][DecodeNext]_vars

\* C14: whatever the native value type of a column binding and whatever its
\* buffer holds, an indicator equal to the null sentinel decodes to null.
C14_NullIndicatorDecodesNull ==
    (rtPc = "decoded" /\ rtCol.lenIndBuf = SQL_NULL_DATA) =>
        rtOut = Decoded(JsNull)

C14_Witness ==
    /\ rtPc = "decoded"
    /\ rtCol.lenIndBuf = SQL_NULL_DATA
    /\ rtCol.cType = "SQL_C_BIT"
    /\ rtCol.buf = <<1>>
    /\ rtOut = Decoded(JsNull)

\* C15: for a wide-character binding and a non-null indicator b, the decoded
\* string has exactly b/2 units, b/2 being a whole number, at least 0 and at
\* most the number of slots of the buffer.
C15_StringLengthFromIndicator ==
    (rtPc = "decoded" /\ rtCol.cType = "SQL_C_WCHAR"
                      /\ rtCol.lenIndBuf # SQL_NULL_DATA) =>
        /\ rtOut.ok
        /\ rtOut.val.kind = "string"
        /\ 2 * Len(rtOut.val.v) = rtCol.lenIndBuf
        /\ Len(rtOut.val.v) >= 0
        /\ Len(rtOut.val.v) <= Len(rtCol.buf)

C15_Witness ==
    /\ rtPc = "decoded"
    /\ rtCol.cType = "SQL_C_WCHAR"
    /\ rtCol.lenIndBuf = -4
    /\ rtOut.ok


(***************************************************************************)
(* getOdbcError step by step.  The handle holds the diagnostic records      *)
(* dgDriver.records; with failFrom = f > 0 the retrieval call itself        *)
(* fails with failStatus for every record number from f on.                 *)
(***************************************************************************)
MaxDiagCalls == 4

\* One formatted line "[state] msg (Code: n)": the record's fields.
DiagLine(state, msg, code) == [state |-> state, msg |-> msg, code |-> code]

\* What the driver can hold for a handle.
DiagRecords == {DiagLine("08001", "m", 1), DiagLine("HY000", "", 0)}

\* The line made of buffers the driver did not write: all still zero.
ZeroedLine == DiagLine("", "", 0)

UnknownOdbcError == DiagLine("", "Unknown ODBC Error", 0)

DiagDrivers ==
    { [records |-> r, failFrom |-> f, failStatus |-> st] :
        r \in UNION { [1..n -> DiagRecords] : n \in 0..MaxDiag },
        f \in 0..(MaxDiag + 1),
        st \in {SQL_ERROR, SQL_INVALID_HANDLE} }

\* SQLGetDiagRecW for record number n.
GetDiagRec(d, n) ==
    IF d.failFrom # 0 /\ n >= d.failFrom
    THEN [status |-> d.failStatus, line |-> ZeroedLine]
    ELSE IF n <= Len(d.records)
         THEN [status |-> SQL_SUCCESS, line |-> d.records[n]]
         ELSE [status |-> SQL_NO_DATA, line |-> ZeroedLine]

\* a return that hands back the joined records even when there are none
EmptyWhenNone(errors) == errors

\* errors.length > 0 ? errors.join("\n") : "Unknown ODBC Error"
DiagResult(errors) ==
    IF Len(errors) > 0 THEN errors ELSE <<UnknownOdbcError>>

DiagInit ==
    /\ NewRequest(Scenario("execute", "connection", DBC, <<>>, Chunk(1, 1)))
    /\ NoRoundTrip
    /\ NoCalls
    /\ NoDestroy
    /\ NoPool
    /\ dgPc = "loop"
    /\ dgI = 1
    /\ dgErrors = <<>>
    /\ dgCalls = <<>>
    /\ dgDriver \in DiagDrivers
    /\ dgLast = SQL_SUCCESS
    /\ dgOut = <<>>

\* One iteration of while (true).
DiagIteration ==
    /\ dgPc = "loop"
    /\ dgI <= MaxDiagCalls
    /\ LET ret == GetDiagRec(dgDriver, dgI)
       IN  /\ dgCalls' = Append(dgCalls, dgI)
           /\ dgLast' = ret.status
           /\ IF ret.status = SQL_NO_DATA
              THEN /\ dgPc' = "break"
                   /\ UNCHANGED <<dgI, dgErrors>>
              ELSE /\ dgErrors' = Append(dgErrors, ret.line)
                   /\ dgI' = dgI + 1
                   /\ UNCHANGED dgPc
    /\ UNCHANGED <<dgDriver, dgOut>>
    /\ UNCHANGED <<requestVars, rtVars, cqVars, dsVars, drVars>>

\* The return statement after the loop.
DiagReturn ==
    /\ dgPc = "break"
    /\ dgOut' = DiagResult(dgErrors)
    /\ dgPc' = "returned"
    /\ UNCHANGED <<dgI, dgErrors, dgCalls, dgDriver, dgLast>>
    /\ UNCHANGED <<requestVars, rtVars, cqVars, dsVars, drVars>>

DiagNext == DiagIteration \/ DiagReturn

DiagSpec == DiagInit /\ [][DiagNext]_vars

\* Retrieval of every record number works: records 1..r, then no-more-data.
RetrievalWorks == dgDriver.failFrom = 0

\* C16: with r records held and no-more-data answered for r + 1,
\* getOdbcError asks for records 1, 2, ... in order, has asked for exactly
\* 1..r+1 when it returns, returns the r records in order, and the text it
\* returns is the fallback when r = 0 and never empty.
C16_DiagRecordsInOrder ==
    /\ dgCalls = [k \in 1..Len(dgCalls) |-> k]
    /\ (RetrievalWorks /\ dgPc = "returned") =>
          LET r == Len(dgDriver.records)
          IN  /\ Len(dgCalls) = r + 1
              /\ r > 0 => dgOut = dgDriver.records
              /\ r = 0 => dgOut = <<UnknownOdbcError>>
              /\ dgOut # <<>>
              /\ Len(dgOut) = Len(GetOdbcError(r))

C16_Witness ==
    /\ RetrievalWorks
    /\ dgPc = "returned"
    /\ Len(dgDriver.records) = 0
    /\ dgCalls = <<1>>

\* Two records held, both returned.
C16_WitnessRecords ==
    /\ RetrievalWorks
    /\ dgPc = "returned"
    /\ Len(dgDriver.records) = MaxDiag
    /\ dgOut = dgDriver.records

RetrievalFailed == dgLast \in {SQL_ERROR, SQL_INVALID_HANDLE}

\* C17: once the retrieval call itself has failed (error or invalid-handle
\* status), getOdbcError has left its loop, and what it returns is not
\* empty.
C17_FailedRetrievalTerminates ==
    RetrievalFailed =>
        /\ dgPc \in {"break", "returned"}
        /\ dgPc = "returned" => dgOut # <<>>

\* The retrieval call failed for record 1 and every later one, and
\* getOdbcError is still in its loop after MaxDiagCalls calls.
C17_Witness ==
    /\ dgDriver.failFrom = 1
    /\ RetrievalFailed
    /\ dgPc = "loop"
    /\ Len(dgCalls) = MaxDiagCalls
    /\ Len(dgErrors) = MaxDiagCalls

(***************************************************************************)
(* Calls in flight on one connection.  executeQuery and streamQuery each    *)
(* make their own OdbcRequest on the connection's handle and nothing makes  *)
(* one call wait for another; with cqShared the calls are execute() and     *)
(* stream() of one OdbcRequest object instead.  Only the statement handles  *)
(* are followed: the #stmtHandle field of each request object, the handles  *)
(* the driver has allocated and not freed, and the SQLFreeHandle calls.     *)
(***************************************************************************)
Calls == 1..MaxCalls

\* The request object call c works on.
RequestOf(c) == IF cqShared THEN 1 ELSE c

CallsInit ==
    /\ NewRequest(Scenario("execute", "connection", DBC, <<>>, Chunk(1, 1)))
    /\ NoRoundTrip
    /\ NoDiag
    /\ NoDestroy
    /\ NoPool
    /\ cqShared \in BOOLEAN
    /\ cqCall = [c \in Calls |-> [kind |-> "execute", pc |-> "idle"]]
    /\ cqHandle = [o \in Calls |-> 0]
    /\ cqLive = {}
    /\ cqFrees = <<>>
    /\ cqAllocs = 0

\* #cleanup of the request of call c, and the end of the call.
CqCleanup(c) ==
    LET o == RequestOf(c)
    IN  /\ cqFrees' = Append(cqFrees, cqHandle[o])
        /\ cqLive' = cqLive \ {cqHandle[o]}
        /\ cqHandle' = [cqHandle EXCEPT ![o] = 0]
        /\ cqCall' = [cqCall EXCEPT ![c].pc = "done"]
        /\ UNCHANGED <<cqShared, cqAllocs>>

\* The call moves on with its handle kept.
CqGoto(c, at) ==
    /\ cqCall' = [cqCall EXCEPT ![c].pc = at]
    /\ UNCHANGED <<cqShared, cqHandle, cqLive, cqFrees, cqAllocs>>

\* executeQuery(), or the first next() of streamQuery(): the statement
\* handle is allocated and the call waits for execDirect.
CqStart(c) ==
    /\ cqCall[c].pc \in {"idle", "done"}
    /\ cqAllocs < MaxAllocs
    /\ \E kind \in {"execute", "stream"} :
          cqCall' = [cqCall EXCEPT ![c] = [kind |-> kind, pc |-> "execDirect"]]
    /\ cqAllocs' = cqAllocs + 1
    /\ cqHandle' = [cqHandle EXCEPT ![RequestOf(c)] = cqAllocs + 1]
    /\ cqLive' = cqLive \cup {cqAllocs + 1}
    /\ UNCHANGED <<cqShared, cqFrees>>
    /\ UNCHANGED <<requestVars, rtVars, dgVars, dsVars, drVars>>

\* execDirect settles.
CqExecDirect(c) ==
    /\ cqCall[c].pc = "execDirect"
    /\ \E outcome \in {"columns", "nocolumns", "error"} :
          CASE outcome = "columns" -> CqGoto(c, "fetch")
            [] outcome = "nocolumns" /\ cqCall[c].kind = "stream" ->
                   CqGoto(c, "lastYield")
            [] OTHER -> CqCleanup(c)
    /\ UNCHANGED <<requestVars, rtVars, dgVars, dsVars, drVars>>

\* The fetch loop comes to a yield, to its end, or fails.
CqFetch(c) ==
    /\ cqCall[c].pc = "fetch"
    /\ \E outcome \in {"chunk", "partial", "end", "error"} :
          CASE outcome = "chunk" /\ cqCall[c].kind = "stream" ->
                   CqGoto(c, "yield")
            [] outcome = "partial" /\ cqCall[c].kind = "stream" ->
                   CqGoto(c, "lastYield")
            [] OTHER -> CqCleanup(c)
    /\ UNCHANGED <<requestVars, rtVars, dgVars, dsVars, drVars>>

\* The consumer of a suspended stream calls next() or return().
CqResume(c) ==
    /\ cqCall[c].pc \in {"yield", "lastYield"}
    /\ \E how \in {"next", "return"} :
          IF how = "next" /\ cqCall[c].pc = "yield"
          THEN CqGoto(c, "fetch")
          ELSE CqCleanup(c)
    /\ UNCHANGED <<requestVars, rtVars, dgVars, dsVars, drVars>>

CallsNext ==
    \E c \in Calls : CqStart(c) \/ CqExecDirect(c) \/ CqFetch(c) \/ CqResume(c)

CallsSpec == CallsInit /\ [][CallsNext]_vars

\* C18: no free-handle call is issued with the handle field null, and no
\* allocated handle is freed more than once.
C18_FreeOnlyLiveHandleOnce ==
    /\ \A k \in DOMAIN cqFrees : cqFrees[k] # 0
    /\ \A j, k \in DOMAIN cqFrees : cqFrees[j] = cqFrees[k] => j = k

\* Two calls on one request object: the second cleanup found the field null
\* and the free-handle call was issued all the same.
C18_Witness ==
    /\ cqShared
    /\ cqAllocs = 2
    /\ cqFrees = <<2, 0>>
    /\ 1 \in cqLive

\* C19: for any interleaving of executeQuery and streamQuery calls on one
\* connection, at most one statement handle allocated on it is live.
C19_OneLiveStatementHandle ==
    ~cqShared => Cardinality(cqLive) <= 1

\* executeQuery waiting for execDirect while a stream of the same
\* connection is suspended between chunks: two live statement handles.
C19_Witness ==
    /\ ~cqShared
    /\ \E c, d \in Calls :
          /\ cqCall[c] = [kind |-> "stream", pc |-> "yield"]
          /\ cqCall[d] = [kind |-> "execute", pc |-> "execDirect"]
          /\ cqHandle[c] # 0 /\ cqHandle[d] # 0 /\ cqHandle[c] # cqHandle[d]
          /\ {cqHandle[c], cqHandle[d]} \subseteq cqLive

(***************************************************************************)
(* Order of the native calls of one statement.                             *)
(***************************************************************************)
\* Arguments of the calls of fn, in order.
Args(fn) ==
    LET made == SelectSeq(calls, LAMBDA c : c.fn = fn)
    IN  [k \in DOMAIN made |-> made[k].arg]

\* C21: the bind-parameter calls are issued for positions 1, 2, ... in that
\* order, each after the previous one returned successfully; execute-direct
\* is issued only after the bind call for the last position returned, and
\* no bind-parameter call follows execute-direct.
C21_BindOrderThenExecDirect ==
    LET bindPlaces == {k \in DOMAIN calls : calls[k].fn = "SQLBindParameter"}
        execPlaces == {k \in DOMAIN calls : calls[k].fn = "SQLExecDirectW"}
        bound == Cardinality(bindPlaces)
    IN  /\ bound <= Len(parameters)
        /\ \A b \in bindPlaces :
              calls[b].arg = 1 + Cardinality({k \in bindPlaces : k < b})
        /\ pc = "bindParams" =>
              /\ Len(paramBindings) = bound
              /\ i = bound + 1
        /\ \A e \in execPlaces :
              /\ bound = Len(parameters)
              /\ \A b \in bindPlaces : b < e

\* Two parameters bound, execute-direct issued.
C21_Witness ==
    /\ Len(parameters) = 2
    /\ Args("SQLBindParameter") = <<1, 2>>
    /\ Len(paramBindings) = 2
    /\ CallCount("SQLExecDirectW") = 1

\* Native calls issued that the driver has not answered yet.  Every call of
\* these functions takes one answer of the driver.
Unanswered ==
    Cardinality({k \in DOMAIN calls :
                    calls[k].fn \in {"SQLAllocHandle", "SQLBindParameter",
                                     "SQLExecDirectW", "SQLDescribeColW",
                                     "SQLFetch"}})
    - (cursor - 1)

OutstandingFetches == IF pc = "awaitExec" THEN 0 ELSE Unanswered

\* Rows decoded so far: accumulated by execute, or emitted in a chunk or
\* pending in the buffer of stream.
Produced ==
    IF op = "execute" THEN rows
    ELSE IF pc \in {"fetch", "awaitFetch"} THEN Flatten(Chunks) \o buffer
    ELSE Flatten(Chunks)

\* C22: at most one fetch call is outstanding at any time; while a fetch is
\* outstanding every earlier fetch has completed and its row is decoded,
\* also when the consumer has issued several pulls that are not answered.
C22_OneFetchOutstanding ==
    /\ LET outstanding == OutstandingFetches
       IN  /\ outstanding \in {0, 1}
           /\ outstanding = 1 <=> pc = "awaitFetch"
    /\ pc = "awaitFetch" =>
          /\ CallCount("SQLFetch") = fetched + 1
          /\ Len(Produced) = fetched

\* A fetch is outstanding after an earlier row, with two pulls unanswered.
C22_Witness ==
    /\ op = "stream"
    /\ pc = "awaitFetch"
    /\ fetched >= 1
    /\ Len(queue) = MaxQueue
    /\ \A k \in DOMAIN queue : queue[k] = "next"

\* The statement handle is allocated and SQLFreeHandle has not been called.
HandleLive == stmtHandle # NULL /\ CallCount("SQLFreeHandle") = 0

\* The column buffer bound at ordinal o is held by #colBindings.
ColumnHeld(o) == \E k \in DOMAIN colBindings : colBindings[k].ref = o

\* C23: from its bind call until the statement handle is freed, every
\* parameter buffer and every column buffer handed to the driver is held by
\* the request's binding registries, whatever the names of the columns.
C23_BoundBuffersHeld ==
    HandleLive =>
        /\ \A o \in DOMAIN mem : ColumnHeld(o)
        /\ Len(paramBindings) >=
              CallCount("SQLBindParameter")
              - (IF thrown.kind = "SQLBindParameter failed" THEN 1 ELSE 0)

\* Two columns described with one name are bound and a fetch is outstanding:
\* the driver writes two buffers, the registry holds one.
C23_Witness ==
    /\ pc = "awaitFetch"
    /\ Len(mem) = 2
    /\ DescribedCol(1).name = DescribedCol(2).name
    /\ ~ColumnHeld(1)
    /\ ColumnHeld(2)

(***************************************************************************)
(* The rows of a statement against the fetches of its driver.              *)
(***************************************************************************)
\* Answers of the driver before the first fetch: the allocation, one per
\* parameter, execDirect, one per column.
AnswersBeforeFetch == Len(parameters) + 2 + colCount

\* Fetches the driver has answered.
FetchesAnswered ==
    IF colCount > 0 /\ cursor - 1 > AnswersBeforeFetch /\ ExecDirectSucceeded
    THEN cursor - 1 - AnswersBeforeFetch
    ELSE 0

FetchStatus(k) == driverLog[AnswersBeforeFetch + k].a

RowAvailable(k) == FetchStatus(k) \in {SQL_SUCCESS, SQL_SUCCESS_WITH_INFO}

\* The binding #colBindings keeps under each name: that of the last column
\* described with the name.
KeptBindings ==
    LET cols == [o \in 1..colCount |-> DescribedCol(o)]
        KeptOrdinal(name) ==
            CHOOSE o \in 1..colCount :
                /\ cols[o].name = name
                /\ \A q \in (o + 1)..colCount : cols[q].name # name
    IN  [n \in {cols[o].name : o \in 1..colCount} |->
            LET d == cols[KeptOrdinal(n)]
            IN  GetColBinding(d.dataType, d.columnSize)]

\* The rows #readRow makes of what fetches 1..n write.
ExpectedRows(n) ==
    LET kept == KeptBindings
        names == DOMAIN kept
    IN  [j \in 1..n |->
            [name \in names |-> ReadCell(DriverWrite(j, kept[name])).val]]

\* The row #readRow makes of what fetch j writes.
ExpectedRow(j) == ExpectedRows(j)[j]

\* Every row the statement can still hand on has been handed on or is pending.
NothingDropped ==
    \/ op = "execute"
    \/ pc \in {"fetch", "awaitFetch", "susp_chunk", "susp_last"}
    \/ FullyConsumed

\* C24: the rows of a statement are one row per fetch that returned
\* row-available or row-available-with-info, in fetch order; a fetch with
\* info contributes its row like a plain one, and no fetch follows the first
\* answer that is not a row.
C24_OneRowPerRowFetch ==
    /\ LET n == FetchesAnswered
       IN  /\ \A k \in 1..(n - 1) : RowAvailable(k)
           /\ fetched = IF n > 0 /\ ~RowAvailable(n) THEN n - 1 ELSE n
    /\ CallCount("SQLFetch") <= fetched + 1
    /\ LET produced == Produced
       IN  /\ Len(produced) <= fetched
           /\ NothingDropped => Len(produced) = fetched
           /\ produced # <<>> => produced = ExpectedRows(Len(produced))

\* execute has returned two rows, the first from a fetch with info, the
\* third fetch having answered no-more-data.
C24_Witness ==
    /\ op = "execute"
    /\ ~replay
    /\ result.state = "fulfilled"
    /\ FetchesAnswered = 3
    /\ FetchStatus(1) = SQL_SUCCESS_WITH_INFO
    /\ FetchStatus(2) = SQL_SUCCESS
    /\ FetchStatus(3) = SQL_NO_DATA
    /\ Len(result.rows) = 2
    /\ result.rows = <<ExpectedRow(1), ExpectedRow(2)>>

\* What a field of a row reads as now: a value is itself, a view into a
\* column buffer is what the buffer holds now.
FieldNow(val) ==
    IF val.kind = "view" /\ val.v \in DOMAIN mem
    THEN ReadCell(mem[val.v]).val
    ELSE val

RowNow(row) == [n \in DOMAIN row |-> FieldNow(row[n])]

\* C25: a row decoded after fetch j is not changed by a later fetch: while
\* later fetches rewrite the column buffers, and after the buffers are
\* released, row j of the rows accumulated, emitted or pending, and of the
\* result handed back, reads as what fetch j wrote.
C25_RowsKeepTheirValues ==
    /\ LET produced == Produced
       IN  produced # <<>> =>
              [j \in DOMAIN produced |-> RowNow(produced[j])]
                 = ExpectedRows(Len(produced))
    /\ (op = "execute" /\ ~replay /\ result.rows # <<>>) =>
          [j \in DOMAIN result.rows |-> RowNow(result.rows[j])]
             = ExpectedRows(Len(result.rows))

\* Two fetches have rewritten the buffers since row 1 was decoded; the
\* buffers now decode to something else than row 1.
C25_Witness ==
    /\ fetched = 3
    /\ Len(Produced) = 3
    /\ colBindings # <<>>
    /\ ReadRow(colBindings, mem).row # Produced[1]
    /\ ReadRow(colBindings, mem).row # Produced[2]
    /\ Produced[1] # Produced[2]

\* C26: execute and stream never free or change the connection handle they
\* were given: in every run, successful or failed, every free-handle call of
\* the request passes the statement handle, and the connection's handle
\* field stays the handle the request was made on.
C26_ConnectionHandleBorrowed ==
    /\ \A k \in DOMAIN calls :
          calls[k].fn = "SQLFreeHandle" =>
             /\ calls[k].arg = HandleId(STMT)
             /\ calls[k].arg # HandleId(dbcHandle)
    /\ (calls # <<>> \/ replay) => dbcHandle = DBC
    /\ dbcHandle \in {DBC, NULL}

\* A stream that failed in a fetch has ended: one free-handle call, for the
\* statement handle, and the connection handle in place.
C26_Witness ==
    /\ op = "stream"
    /\ pc = "done"
    /\ FetchFailed
    /\ Args("SQLFreeHandle") = <<HandleId(STMT)>>
    /\ dbcHandle = DBC

\* The native types #getColBinding has a binding for.
SupportedColTypes ==
    {"SQL_INTEGER", "SQL_BIGINT", "SQL_FLOAT", "SQL_BIT"}
    \cup CharTypes \cup {"SQL_TYPE_TIMESTAMP", "SQL_TYPE_DATE"}

\* Column j has been described with a type outside the supported set.
UnsupportedColumn(j) ==
    Described(j) /\ DescribedCol(j).dataType \notin SupportedColTypes

\* The call fails with error e, issues no fetch, and cleans up.
FailsWithoutFetch(e) ==
    /\ thrown = e
    /\ CallCount("SQLFetch") = 0
    /\ pc \in {"finally", "settle", "settled", "done"}
    /\ pc \in {"settle", "settled", "done"} => CleanedUp
    /\ (pc = "settled" \/ (pc = "done" /\ op = "execute")) =>
          requestResult = [NoResult EXCEPT !.state = "rejected", !.err = e]
    /\ (pc = "done" /\ op = "execute") => result = requestResult
    /\ (pc = "done" /\ op = "stream") =>
          (delivered # <<>> /\ delivered[1] = Failed(e))

\* C27 as stated: a result column of a type outside the supported set makes
\* execute and stream fail with the unsupported-column-type error, with no
\* fetch issued and cleanup run.
C27_UnsupportedColumnType ==
    \A j \in 1..colCount :
        UnsupportedColumn(j) => FailsWithoutFetch(Err("Unsupported SQL dataType"))

\* C27 amended: such a column makes execute and stream fail, with no fetch
\* issued and cleanup run; the error is the unsupported-column-type error
\* when the declared size of the column is not 0 and not above 65536, and
\* the unable-to-bind error of the size test otherwise.
C27_UnsupportedColumnFails ==
    \A j \in 1..colCount :
        UnsupportedColumn(j) =>
            FailsWithoutFetch(IF ColSizeRejected(DescribedCol(j).columnSize)
                              THEN Err("Unable to bind column")
                              ELSE Err("Unsupported SQL dataType"))

\* A stream has ended on its second column, of an unsupported type.
C27_Witness ==
    /\ op = "stream"
    /\ pc = "done"
    /\ UnsupportedColumn(2)
    /\ DescribedCol(2).columnSize = 10
    /\ Len(delivered) = 1
    /\ delivered[1] = Failed(Err("Unsupported SQL dataType"))
    /\ CleanedUp

\* execute has failed on a column of an unsupported type and declared size 0.
C27_WitnessSizeFirst ==
    /\ op = "execute"
    /\ pc = "done"
    /\ UnsupportedColumn(2)
    /\ DescribedCol(2).columnSize = 0
    /\ result.err = Err("Unable to bind column")

\* C28: every decoded row has one field per result column: with N columns
\* reported by execute-direct each row holds N fields, whatever the names
\* the columns are described with.
C28_OneFieldPerColumn ==
    /\ \A j \in DOMAIN Produced : Cardinality(DOMAIN Produced[j]) = colCount
    /\ (op = "execute" /\ ~replay) =>
          \A j \in DOMAIN result.rows :
              Cardinality(DOMAIN result.rows[j]) = colCount

\* execute has returned a row of a statement with two columns described
\* with one name: the row has one field.
C28_Witness ==
    /\ op = "execute"
    /\ ~replay
    /\ result.state = "fulfilled"
    /\ colCount = 2
    /\ DescribedCol(1).name = DescribedCol(2).name
    /\ Len(result.rows) >= 1
    /\ Cardinality(DOMAIN result.rows[1]) = 1

\* C29: for a whole-number parameter outside the signed 32-bit range, also
\* outside the signed 64-bit range, the 8-byte buffer holds exactly the
\* value, or the mapping fails.
C29_EightByteBufferExact ==
    (rtPc # "map" /\ IsWhole(rtVal) /\ ~InInt32Range(BigOf(rtVal))) =>
        \/ ~rtParam.ok
        \/ /\ rtParam.cType = "SQL_C_SBIGINT"
           /\ FromInt64Bits(rtParam.buf) = BigOf(rtVal)

\* 2^64 passed as a bigint is mapped without error to a buffer holding 0.
C29_Witness ==
    /\ rtPc = "bindCol"
    /\ rtVal = JsBigInt(Big(1, 0, 0, 0, 0))
    /\ rtParam.ok
    /\ rtParam.cType = "SQL_C_SBIGINT"
    /\ FromInt64Bits(rtParam.buf) = SmallBig(0)

(***************************************************************************)
(* OdbcConnection.destroy, called any number of times on one connection,   *)
(* one call after another or while the disconnect of another is pending.   *)
(***************************************************************************)
Destroys == 1..MaxDestroys

DestroyInit ==
    /\ NewRequest(Scenario("execute", "connection", DBC, <<>>, Chunk(1, 1)))
    /\ NoRoundTrip
    /\ NoDiag
    /\ NoCalls
    /\ dsCall = [c \in Destroys |-> "idle"]
    /\ dsHandle \in {DBC, NULL}
    /\ dsFrees = <<>>
    /\ dsFailed = {}
    /\ NoPool

\* destroy() up to its await: return at once on a null handle, else call
\* disconnect.
DestroyCall(c) ==
    /\ dsCall[c] = "idle"
    /\ dsCall' = [dsCall EXCEPT ![c] = IF dsHandle = NULL THEN "done"
                                      ELSE "awaitDisconnect"]
    /\ UNCHANGED <<dsHandle, dsFrees, dsFailed>>
    /\ UNCHANGED <<requestVars, rtVars, dgVars, cqVars, drVars>>

\* Faulty variant: a failure of disconnect ends destroy().
DisconnectFailureRethrown(c) ==
    /\ dsCall[c] = "awaitDisconnect"
    /\ \E ok \in BOOLEAN :
          IF ok
          THEN /\ dsFrees' = Append(dsFrees, dsHandle)
               /\ dsHandle' = NULL
               /\ UNCHANGED dsFailed
          ELSE /\ dsFailed' = dsFailed \cup {c}
               /\ UNCHANGED <<dsFrees, dsHandle>>
    /\ dsCall' = [dsCall EXCEPT ![c] = "done"]
    /\ UNCHANGED <<requestVars, rtVars, dgVars, cqVars, drVars>>

\* disconnect settles, its failure is ignored; freeHandle is called with the
\* handle field as it is now, and the field is set to null.
DisconnectSettles(c) ==
    /\ dsCall[c] = "awaitDisconnect"
    /\ \E ok \in BOOLEAN :
          dsFailed' = IF ok THEN dsFailed ELSE dsFailed \cup {c}
    /\ dsFrees' = Append(dsFrees, dsHandle)
    /\ dsHandle' = NULL
    /\ dsCall' = [dsCall EXCEPT ![c] = "done"]
    /\ UNCHANGED <<requestVars, rtVars, dgVars, cqVars, drVars>>

DestroyNext == \E c \in Destroys : DestroyCall(c) \/ DisconnectSettles(c)

DestroySpec == DestroyInit /\ [][DestroyNext]_vars

\* freeHandle calls that passed the connection handle.
ConnectionFrees == Cardinality({k \in DOMAIN dsFrees : dsFrees[k] = DBC})

\* C30: however destroy() calls on one connection follow or overlap each
\* other, the connection handle is passed to free-handle at most once; once
\* a destroy() has got past its disconnect the handle has been freed and the
\* field is null, also when that disconnect failed.
C30_ConnectionFreedOnce ==
    /\ ConnectionFrees <= 1
    /\ dsFrees # <<>> => (dsFrees[1] = DBC /\ dsHandle = NULL)
    /\ \A c \in Destroys :
          (dsCall[c] = "done" /\ c \in dsFailed) =>
              (ConnectionFrees = 1 /\ dsHandle = NULL)
    /\ \A c \in Destroys :
          (dsCall[c] = "done" /\ dsFrees = <<>>) => dsHandle = NULL

\* Two destroy() calls overlapped while disconnect was pending and both are
\* done, a disconnect having failed: the handle was freed by the first.
C30_Witness ==
    /\ Len(dsFrees) = 2
    /\ dsFrees[1] = DBC
    /\ dsFailed # {}
    /\ \E c \in Destroys : dsCall[c] = "idle"
    /\ Cardinality({c \in Destroys : dsCall[c] = "done"}) = 2

(***************************************************************************)
(* Statements on a closed connection.                                      *)
(***************************************************************************)
\* The statement is run through an OdbcConnection whose #dbcHandle is null.
ClosedConnection == entry = "connection" /\ dbcHandle = NULL

ConnectionClosedError == Err("Connection is closed")

\* C33: on a connection whose handle is null, executeQuery and the first
\* pull of streamQuery fail with the connection-closed error; no native
\* call is issued and no statement handle is allocated.  A stream ends
\* without the error only when return() was its first request.
C33_ClosedConnectionNoNativeCall ==
    ClosedConnection =>
        /\ calls = <<>>
        /\ cursor = 1
        /\ stmtHandle = NULL
        /\ op = "execute" =>
              /\ pc \in {"start", "done"}
              /\ pc = "done" =>
                    /\ result.state = "rejected"
                    /\ result.err = ConnectionClosedError
        /\ op = "stream" =>
              /\ pc \in {"start", "settle", "done"}
              /\ pc = "settle" => completion = Thrown(ConnectionClosedError)
              /\ pc = "done" =>
                    /\ delivered # <<>>
                    /\ IF completion = Returned
                       THEN \A k \in DOMAIN delivered : delivered[k] = Done
                       ELSE /\ delivered[1] = Failed(ConnectionClosedError)
                            /\ \A k \in 2..Len(delivered) : delivered[k] = Done

\* The first pull of a stream on a closed connection was answered with the
\* error, and the request after it with the end.
C33_Witness ==
    /\ ClosedConnection
    /\ op = "stream"
    /\ pc = "done"
    /\ Len(delivered) = 2
    /\ delivered[1] = Failed(ConnectionClosedError)
    /\ calls = <<>>

(***************************************************************************)
(* OdbcDriver: init(), the create and destroy hooks of its pool, and       *)
(* destroy().  The pool is the tarn Pool: it keeps the connections its     *)
(* create hook returned, and its destroy() takes no new create, waits for  *)
(* the creates under way and calls the destroy hook on every connection    *)
(* it keeps.                                                               *)
(***************************************************************************)
Conns == 1..MaxConns

DriverDestroys == 1..MaxDriverDestroys

DriverInitState ==
    /\ NewRequest(Scenario("execute", "connection", DBC, <<>>, Chunk(1, 1)))
    /\ NoRoundTrip
    /\ NoDiag
    /\ NoCalls
    /\ NoDestroy
    /\ NoPool

\* OdbcDriver.init(): the environment handle is allocated.
DriverInit ==
    /\ drEnv = NULL
    /\ \A d \in DriverDestroys : drCall[d] = "idle"
    /\ drEnv' = ENV
    /\ UNCHANGED <<drPool, drConn, drLive, drCall, drFrees>>
    /\ UNCHANGED <<requestVars, rtVars, dgVars, cqVars, dsVars>>

\* The create hook up to the await of driverConnect: it throws when the
\* driver has no environment handle, else connect() allocates the
\* connection handle.
PoolCreate(c) ==
    /\ drPool = "open"
    /\ drConn[c] = "none"
    /\ IF drEnv = NULL
       THEN /\ drConn' = [drConn EXCEPT ![c] = "rejected"]
            /\ UNCHANGED drLive
       ELSE /\ drConn' = [drConn EXCEPT ![c] = "connecting"]
            /\ drLive' = drLive \cup {c}
    /\ UNCHANGED <<drEnv, drPool, drCall, drFrees>>
    /\ UNCHANGED <<requestVars, rtVars, dgVars, cqVars, dsVars>>

\* driverConnect settles: the hook returns the connection to the pool, or
\* connect() rethrows the failure and the hook rejects.
ConnectSettles(c) ==
    /\ drConn[c] = "connecting"
    /\ \E ok \in BOOLEAN :
          drConn' = [drConn EXCEPT ![c] = IF ok THEN "pooled" ELSE "failed"]
    /\ UNCHANGED <<drEnv, drPool, drLive, drCall, drFrees>>
    /\ UNCHANGED <<requestVars, rtVars, dgVars, cqVars, dsVars>>

\* The destroy hook on a connection the pool keeps: connection.destroy()
\* frees the connection handle.
PoolDestroyConnection(c) ==
    /\ drPool = "closed"
    /\ drConn[c] = "pooled"
    /\ drConn' = [drConn EXCEPT ![c] = "destroyed"]
    /\ drLive' = drLive \ {c}
    /\ UNCHANGED <<drEnv, drPool, drCall, drFrees>>
    /\ UNCHANGED <<requestVars, rtVars, dgVars, cqVars, dsVars>>

\* The promise of pool.destroy() is resolved.
PoolDestroyComplete ==
    /\ drPool = "closed"
    /\ \A c \in Conns : drConn[c] \notin {"connecting", "pooled"}

\* OdbcDriver.destroy() up to the await of pool.destroy().
DriverDestroyCall(d) ==
    /\ drCall[d] = "idle"
    /\ drCall' = [drCall EXCEPT ![d] = "awaitPool"]
    /\ drPool' = "closed"
    /\ UNCHANGED <<drEnv, drConn, drLive, drFrees>>
    /\ UNCHANGED <<requestVars, rtVars, dgVars, cqVars, dsVars>>

\* OdbcDriver.destroy() from the await of pool.destroy() to the await of
\* SQLFreeHandle.
DriverDestroyResume(d) ==
    /\ drCall[d] = "awaitPool"
    /\ PoolDestroyComplete
    /\ IF drEnv = NULL
       THEN /\ drCall' = [drCall EXCEPT ![d] = "done"]
            /\ UNCHANGED drFrees
       ELSE /\ drCall' = [drCall EXCEPT ![d] = "awaitFree"]
            /\ drFrees' = Append(drFrees, drEnv)
    /\ UNCHANGED <<drEnv, drPool, drConn, drLive>>
    /\ UNCHANGED <<requestVars, rtVars, dgVars, cqVars, dsVars>>

\* OdbcDriver.destroy() after the await of SQLFreeHandle.
DriverFreeReturn(d) ==
    /\ drCall[d] = "awaitFree"
    /\ drEnv' = NULL
    /\ drCall' = [drCall EXCEPT ![d] = "done"]
    /\ UNCHANGED <<drPool, drConn, drLive, drFrees>>
    /\ UNCHANGED <<requestVars, rtVars, dgVars, cqVars, dsVars>>

DriverNext ==
    \/ DriverInit
    \/ \E c \in Conns :
          PoolCreate(c) \/ ConnectSettles(c) \/ PoolDestroyConnection(c)
    \/ \E d \in DriverDestroys :
          DriverDestroyCall(d) \/ DriverDestroyResume(d) \/ DriverFreeReturn(d)

DriverSpec == DriverInitState /\ [][DriverNext]_vars

\* An OdbcDriver.destroy() call has completed.
DriverDestroyed == \E d \in DriverDestroys : drCall[d] = "done"

\* C31: once OdbcDriver.destroy() has completed, every connection handle
\* that connect() allocated inside the create hook has been freed, also the
\* handle of a connection whose driverConnect failed.
C31_ConnectionHandlesFreed == DriverDestroyed => drLive = {}

\* driverConnect failed on one connection and succeeded on another, and
\* OdbcDriver.destroy() has completed.
C31_Witness ==
    /\ DriverDestroyed
    /\ \E c \in Conns : drConn[c] = "failed"
    /\ \E c \in Conns : drConn[c] = "destroyed"

\* C32: however OdbcDriver.destroy() calls follow or overlap each other,
\* the environment handle is passed to SQLFreeHandle at most once, and not
\* before pool.destroy() has completed.
C32_EnvironmentFreedOnce ==
    /\ Len(drFrees) <= 1
    /\ drFrees # <<>> => PoolDestroyComplete

\* Two destroy() calls are past their await of pool.destroy(), the first not
\* yet back from SQLFreeHandle.
C32_Witness ==
    /\ \E d \in DriverDestroys : drCall[d] = "awaitFree"
    /\ Cardinality({d \in DriverDestroys : drCall[d] # "idle"}) >= 2
    /\ \A d \in DriverDestroys : drCall[d] # "awaitPool"
    /\ \E c \in Conns : drConn[c] = "destroyed"
=============================================================================
